---------------------------- MODULE Spec2Model ----------------------------
(***************************************************************************)
(* State-machine model of the two resumable downloaders of the repository: *)
(*   1_facility_download.py  (prog = "F": one key per year)                *)
(*   2_dmr_download.py       (prog = "D": one key per (year, permit ID))   *)
(* One process runs at a time; the disk (artifacts, checkpoint files)      *)
(* survives from one invocation to the next.  A process can be killed or   *)
(* receive SIGUSR1 between any two steps.                                  *)
(***************************************************************************)
EXTENDS Integers, Sequences, FiniteSets, TLC

VARIABLES
    prog,       \* which script this behaviour runs: "F" or "D"
    pc,         \* position of the running process; "idle" when none runs
    argv,       \* TRUE iff the positional region argument was given
    logReady,   \* F: logging.basicConfig(level=INFO) done; D: global logger set
    files,      \* path -> [exists, data]: artifacts on disk
    ckpt,       \* checkpoint store name -> sequence of lines
    listing,    \* D: year -> rows of the listing file (raw permit cells)
    completed,  \* completed_years / completed_ids loaded from the checkpoint
    year,       \* loop variable of F; year of the listing in hand in D
    todo,       \* D: listing years still to visit, in os.listdir order
    ids,        \* D: npdes_ids of the listing in hand
    idx,        \* D: position in ids
    resp,       \* the response of the request in hand
    cur,        \* history: the key of the latest request
    stop,       \* how the latest process ended
    exitCode,   \* its exit status
    logged,     \* the SIGUSR1 event reached a log handler or stdout
    run,        \* invocations started so far
    reqs,       \* history: keys requested by this invocation, in order
    ev,         \* history: operations performed for the key in hand
    onlyResp,   \* history: the one response every request so far was given (Mixed if they differed)
    prevDone,   \* history: the previous invocation reached the end of its keys
    prevClean,  \* history: ... and every request of it was stored as a success
    outs,       \* history: where each request of reqs ended: "store", "quarantine" or "cooldown"
    disk0,      \* history: files and ckpt as this invocation found them
    crashKey,   \* history: key whose artifact was complete but not checkpointed when the previous invocation was killed
    persisted,  \* history: <<key, "success" or "quarantine">> once the outcome is on disk
    persisted0, \* history: persisted as this invocation found it
    hasDir,     \* D: the listing directory {facility_data_root}/{state} exists
    workers,    \* the processes of the two-region system (empty when one process runs alone)
    layout,     \* D: year -> what the listing file has around its rows (preamble, columns, defects)
    warned,     \* history: years whose listing file main logged as unreadable or empty, in order
    maint       \* the maintenance pass clean_bad_csvs.py: its position, its lists, and the
                \* checkpoint directory it edits

vars == <<prog, pc, argv, logReady, files, ckpt, listing, completed, year, todo,
          ids, idx, resp, cur, stop, exitCode, logged, run, reqs, ev, onlyResp,
          prevDone, prevClean, outs, disk0, crashKey, persisted, persisted0,
          hasDir, workers, layout, warned, maint>>

-----------------------------------------------------------------------------
(* Bounds of the model *)

MaxRuns == 2            \* invocations per behaviour
NumYears == 3           \* years of the range of F (the code has 26)

(* Program constants *)

FirstYear == 2000

Years == FirstYear .. (FirstYear + NumYears - 1)

Region == "OH"
NoId == ""

-----------------------------------------------------------------------------
(* Response bodies: a body is a sequence of text fragments.  The fragments *)
(* are the ones the classification of 2_dmr_download.py looks for, in the  *)
(* letter cases it can meet, and the two parts of a CSV document.          *)

Fragments == {"header", "rows", "FILE OUTPUT FAILED", "file output failed", "<html"}

Lower(t) ==
    CASE t = "FILE OUTPUT FAILED" -> "file output failed"
      [] t = "<HTML" -> "<html"
      [] OTHER -> t

LowerText(body) == [i \in DOMAIN body |-> Lower(body[i])]

Contains(body, t) == \E i \in DOMAIN body : body[i] = t

(* a CSV document: its header line, then its rows *)
Csv == <<"header", "rows">>

Bodies == {Csv, <<"FILE OUTPUT FAILED">>, <<"file output failed">>, <<"<html">>}


-----------------------------------------------------------------------------
(* Responses of requests.get: either an exception of the transport, or an  *)
(* HTTP response with a status and a body.                                 *)

Exc == [exc |-> TRUE, status |-> 0, body |-> <<>>]

Http(s, b) == [exc |-> FALSE, status |-> s, body |-> b]

NoResp == [exc |-> FALSE, status |-> 0, body |-> <<>>]

Mixed == [exc |-> TRUE, status |-> 1, body |-> <<>>]

(* what the service can answer a request of 2_dmr_download.py *)
UpstreamD ==
    {Exc, Http(500, <<"<html">>), Http(300, Csv), Http(300, <<"<html">>)}
        \cup {Http(200, b) : b \in Bodies}

(* what it can answer 1_facility_download.py, which never looks into the body *)
UpstreamF ==
    {Exc, Http(500, <<"<html">>), Http(300, Csv),
     Http(200, Csv), Http(200, <<"<html">>)}

(* response.raise_for_status(): HTTPError for 4xx and 5xx, nothing else *)
RaisesForStatus(r) == r.status >= 400 /\ r.status < 600

(* requests.get followed by raise_for_status ends in the except branch *)
RequestFails(r) == r.exc \/ RaisesForStatus(r)

-----------------------------------------------------------------------------
(* Keys, paths, checkpoint stores *)

Key(y, i) == [year |-> y, id |-> i]

NoKey == Key(0, NoId)

Absent == [exists |-> FALSE, data |-> <<>>]

(* os.path.join(output_dir, state, f"{year}_{state}.csv") *)
FPath(y) == [tree |-> "facility", region |-> Region, year |-> y, id |-> NoId]

FPaths == {FPath(y) : y \in Years}

(* os.path.join(checkpoints_dir, f"{state}_progress.txt") *)
FStore == [region |-> Region, year |-> 0]

(* f"{year}\n": the decimal digits of the year *)
FormatYear(y) == <<y \div 1000, (y \div 100) % 10, (y \div 10) % 10, y % 10>>

(* The characters of a checkpoint line: a decimal digit is its value, any   *)
(* other character its code.  Superscript two (U+00B2) is a digit for       *)
(* str.isdigit() and no decimal digit for int(); the byte 0xFF is no UTF-8. *)
Superscript2 == 178
Letter == 120
Undecodable == 255

IsDecimal(c) == c \in 0 .. 9

IsDigit(c) == IsDecimal(c) \/ c = Superscript2

(* line.strip().isdigit() *)
IsDigitLine(l) == Len(l) > 0 /\ \A i \in DOMAIN l : IsDigit(l[i])

(* int(line.strip()) raises ValueError *)
IntRaises(l) == \E i \in DOMAIN l : ~IsDecimal(l[i])

RECURSIVE IntOf(_)
(* int(line.strip()) of a line of digits *)
IntOf(l) == IF l = <<>> THEN 0 ELSE 10 * IntOf(SubSeq(l, 1, Len(l) - 1)) + l[Len(l)]

(* try: {int(line.strip()) for line in f if line.strip().isdigit()}        *)
(* except ValueError: completed_years = set()                               *)
(* for line in f raises UnicodeDecodeError, a ValueError, on bytes that are *)
(* no text; int raises ValueError                                           *)
ParseYears(lines) ==
    IF \/ \E j \in DOMAIN lines : \E i \in DOMAIN lines[j] : lines[j][i] = Undecodable
       \/ \E j \in DOMAIN lines : IsDigitLine(lines[j]) /\ IntRaises(lines[j])
    THEN {}
    ELSE {IntOf(lines[i]) : i \in {j \in DOMAIN lines : IsDigitLine(lines[j])}}

-----------------------------------------------------------------------------
(* Shared pieces of the steps *)

(* the elements of a sequence *)
Range(q) == {q[i] : i \in DOMAIN q}

(* open(path, "w"): creates the file or truncates it *)
Opened(f, p) == [f EXCEPT ![p] = [exists |-> TRUE, data |-> <<>>]]

(* one more fragment of the body reaches the file *)
Written(f, p, body) ==
    [f EXCEPT ![p].data = Append(@, body[Len(@) + 1])]

WriteComplete(f, p, body) == f[p].exists /\ f[p].data = body

(* the history of a request: which key, and whether the upstream repeated itself *)
NoteRequest(k, r) ==
    /\ reqs' = Append(reqs, k)
    /\ cur' = k
    /\ onlyResp' = IF onlyResp \in {NoResp, r} THEN r ELSE Mixed

(* the process is gone, and its memory with it *)
Ended(how, code) ==
    /\ pc' = "idle"
    /\ stop' = how
    /\ exitCode' = code
    /\ completed' = {}
    /\ year' = FirstYear
    /\ todo' = <<>>
    /\ ids' = <<>>
    /\ idx' = 1

(* an interrupted invocation leaves no history of its requests behind *)
Forgotten ==
    /\ reqs' = <<>>
    /\ outs' = <<>>
    /\ ev' = <<>>
    /\ disk0' = [files |-> files, ckpt |-> ckpt]
    /\ persisted0' = persisted
    /\ warned' = <<>>

-----------------------------------------------------------------------------
(* 1_facility_download.py *)

FKey(y) == Key(y, NoId)

FKeys == {FKey(y) : y \in Years}

(* python 1_facility_download.py [STATE]: the module is imported, which     *)
(* registers handle_sigusr1, and the __main__ block is about to run         *)
F_Launch ==
    /\ prog = "F"
    /\ pc = "idle"
    /\ run < MaxRuns
    /\ run' = run + 1
    /\ argv' \in BOOLEAN
    /\ pc' = "f_argv"
    /\ logReady' = FALSE
    /\ logged' = FALSE
    /\ stop' = "none"
    /\ exitCode' = -1
    /\ completed' = {}
    /\ year' = FirstYear
    /\ resp' = NoResp
    /\ cur' = NoKey
    /\ reqs' = <<>>
    /\ ev' = <<>>
    /\ prevDone' = (stop = "done")
    /\ prevClean' = (stop = "done" /\ \A i \in DOMAIN outs : outs[i] = "store")
    /\ outs' = <<>>
    /\ disk0' = [files |-> files, ckpt |-> ckpt]
    /\ persisted0' = persisted
    /\ crashKey' = IF stop = "killed" THEN crashKey ELSE NoKey
    /\ warned' = <<>>
    /\ UNCHANGED <<prog, hasDir, workers, maint, layout, files, ckpt, listing, todo, ids, idx, onlyResp, persisted>>

(* the usage branch ending with sys.exit(0) *)
F_Usage_ExitZero ==
    /\ pc = "f_argv"
    /\ ~argv
    /\ Ended("usage", 0)
    /\ UNCHANGED <<prog, hasDir, workers, maint, layout, warned, argv, logReady, files, ckpt, listing, resp, cur, run, reqs, ev,
                   onlyResp, prevDone, prevClean, outs, disk0, persisted0, persisted, logged, crashKey>>

(* if len(sys.argv) < 2: print usage; sys.exit(1) *)
F_Usage ==
    /\ pc = "f_argv"
    /\ ~argv
    /\ Ended("usage", 1)
    /\ UNCHANGED <<prog, hasDir, workers, maint, layout, warned, argv, logReady, files, ckpt, listing, resp, cur, run, reqs, ev,
                   onlyResp, prevDone, prevClean, outs, disk0, persisted0, persisted, logged, crashKey>>

(* main(state): setup_logging, makedirs of the checkpoint directory *)
F_SetupLogging ==
    /\ pc = "f_argv"
    /\ argv
    /\ logReady' = TRUE
    /\ pc' = "f_load"
    /\ UNCHANGED <<prog, hasDir, workers, maint, layout, warned, argv, files, ckpt, listing, completed, year, todo,
                   ids, idx, resp, cur, stop, exitCode, logged, run, reqs, ev, onlyResp,
                   prevDone, prevClean, outs, disk0, persisted0, crashKey, persisted>>

(* read the checkpoint file into completed_years *)
F_LoadCheckpoint ==
    /\ pc = "f_load"
    /\ completed' = ParseYears(ckpt[FStore])
    /\ year' = FirstYear
    /\ pc' = "f_loop"
    /\ UNCHANGED <<prog, hasDir, workers, maint, layout, warned, argv, logReady, files, ckpt, listing, todo,
                   ids, idx, resp, cur, stop, exitCode, logged, run, reqs, ev, onlyResp,
                   prevDone, prevClean, outs, disk0, persisted0, crashKey, persisted>>

(* for year in years: if year in completed_years: continue *)
F_SkipCompleted ==
    /\ pc = "f_loop"
    /\ year \in Years
    /\ year \in completed
    /\ year' = year + 1
    /\ UNCHANGED <<prog, hasDir, workers, maint, layout, warned, pc, argv, logReady, files, ckpt, listing, completed, todo,
                   ids, idx, resp, cur, stop, exitCode, logged, run, reqs, ev, onlyResp,
                   prevDone, prevClean, outs, disk0, persisted0, crashKey, persisted>>

(* the loop of main without its test of completed_years *)
F_BeginDownload_NoSkip ==
    /\ pc = "f_loop"
    /\ year \in Years
    /\ ev' = <<>>
    /\ pc' = "f_prewait"
    /\ UNCHANGED <<prog, hasDir, workers, maint, layout, warned, argv, logReady, files, ckpt, listing, completed, year, todo,
                   ids, idx, resp, cur, stop, exitCode, logged, run, reqs, onlyResp,
                   prevDone, prevClean, outs, disk0, persisted0, crashKey, persisted>>

(* download_facility_data up to the pre-request random_wait *)
F_BeginDownload ==
    /\ pc = "f_loop"
    /\ year \in Years
    /\ year \notin completed
    /\ ev' = <<>>
    /\ pc' = "f_prewait"
    /\ UNCHANGED <<prog, hasDir, workers, maint, layout, warned, argv, logReady, files, ckpt, listing, completed, year, todo,
                   ids, idx, resp, cur, stop, exitCode, logged, run, reqs, onlyResp,
                   prevDone, prevClean, outs, disk0, persisted0, crashKey, persisted>>

(* random_wait(3, 10, ...) returns *)
F_PreWait ==
    /\ pc = "f_prewait"
    /\ ev' = Append(ev, "pre")
    /\ pc' = "f_get"
    /\ UNCHANGED <<prog, hasDir, workers, maint, layout, warned, argv, logReady, files, ckpt, listing, completed, year, todo,
                   ids, idx, resp, cur, stop, exitCode, logged, run, reqs, onlyResp,
                   prevDone, prevClean, outs, disk0, persisted0, crashKey, persisted>>

(* response = requests.get(query_url); response.raise_for_status() *)
F_Get ==
    /\ pc = "f_get"
    /\ \E r \in UpstreamF :
        /\ resp' = r
        /\ NoteRequest(FKey(year), r)
        /\ IF RequestFails(r)
             THEN pc' = "f_cooldown" /\ outs' = Append(outs, "cooldown")
             ELSE pc' = "f_open" /\ outs' = Append(outs, "store")
    /\ ev' = Append(ev, "get")
    /\ UNCHANGED <<prog, hasDir, workers, maint, layout, warned, argv, logReady, files, ckpt, listing, completed, year, todo,
                   ids, idx, stop, exitCode, logged, run,
                   prevDone, prevClean, disk0, persisted0, crashKey, persisted>>

(* with open(file_path, "w", encoding="utf-8") as file *)
F_Open ==
    /\ pc = "f_open"
    /\ files' = Opened(files, FPath(year))
    /\ ev' = Append(ev, "open")
    /\ pc' = "f_write"
    /\ UNCHANGED <<prog, hasDir, workers, maint, layout, warned, argv, logReady, ckpt, listing, completed, year, todo,
                   ids, idx, resp, cur, stop, exitCode, logged, run, reqs, onlyResp,
                   prevDone, prevClean, outs, disk0, persisted0, crashKey, persisted>>

(* file.write(response.text), fragment by fragment, and the close *)
F_Write ==
    /\ pc = "f_write"
    /\ files' = Written(files, FPath(year), resp.body)
    /\ ev' = Append(ev, "write")
    /\ pc' = IF WriteComplete(files', FPath(year), resp.body) THEN "f_postwait" ELSE "f_write"
    /\ UNCHANGED <<prog, hasDir, workers, maint, layout, warned, argv, logReady, ckpt, listing, completed, year, todo,
                   ids, idx, resp, cur, stop, exitCode, logged, run, reqs, onlyResp,
                   prevDone, prevClean, outs, disk0, persisted0, crashKey, persisted>>

(* random_wait(10, 30, ...) returns; return True *)
F_PostWait ==
    /\ pc = "f_postwait"
    /\ ev' = Append(ev, "post")
    /\ pc' = "f_append"
    /\ UNCHANGED <<prog, hasDir, workers, maint, layout, warned, argv, logReady, files, ckpt, listing, completed, year, todo,
                   ids, idx, resp, cur, stop, exitCode, logged, run, reqs, onlyResp,
                   prevDone, prevClean, outs, disk0, persisted0, crashKey, persisted>>

(* the end of a successful year without the append to the checkpoint file *)
F_Append_NoCheckpoint ==
    /\ pc = "f_append"
    /\ ckpt' = ckpt
    /\ persisted' = persisted \cup {<<FKey(year), "success">>}
    /\ ev' = Append(ev, "append")
    /\ year' = year + 1
    /\ resp' = NoResp
    /\ pc' = "f_loop"
    /\ UNCHANGED <<prog, hasDir, workers, maint, layout, warned, argv, logReady, files, listing, completed, todo,
                   ids, idx, cur, stop, exitCode, logged, run, reqs, onlyResp,
                   prevDone, prevClean, outs, disk0, persisted0, crashKey>>

(* if success: open(checkpoint_file, 'a'), write f"{year}\n" *)
F_Append ==
    /\ pc = "f_append"
    /\ ckpt' = [ckpt EXCEPT ![FStore] = Append(@, FormatYear(year))]
    /\ persisted' = persisted \cup {<<FKey(year), "success">>}
    /\ ev' = Append(ev, "append")
    /\ year' = year + 1
    /\ resp' = NoResp
    /\ pc' = "f_loop"
    /\ UNCHANGED <<prog, hasDir, workers, maint, layout, warned, argv, logReady, files, listing, completed, todo,
                   ids, idx, cur, stop, exitCode, logged, run, reqs, onlyResp,
                   prevDone, prevClean, outs, disk0, persisted0, crashKey>>

(* except RequestException: logger.error; time.sleep(30); return False *)
F_Cooldown ==
    /\ pc = "f_cooldown"
    /\ ev' = Append(ev, "cooldown")
    /\ year' = year + 1
    /\ resp' = NoResp
    /\ pc' = "f_loop"
    /\ UNCHANGED <<prog, hasDir, workers, maint, layout, warned, argv, logReady, files, ckpt, listing, completed, todo,
                   ids, idx, cur, stop, exitCode, logged, run, reqs, onlyResp,
                   prevDone, prevClean, outs, disk0, persisted0, crashKey, persisted>>

(* the for loop is exhausted: "Finished processing all years" *)
F_Finish ==
    /\ pc = "f_loop"
    /\ year \notin Years
    /\ Ended("done", 0)
    /\ crashKey' = crashKey
    /\ UNCHANGED <<prog, hasDir, workers, maint, layout, warned, argv, logReady, files, ckpt, listing, resp, cur, run, reqs, ev,
                   onlyResp, prevDone, prevClean, outs, disk0, persisted0, persisted, logged>>

(* handle_sigusr1: logging.info on the root logger, sys.exit(0).  The root  *)
(* logger passes INFO only once basicConfig(level=INFO) has run.            *)
F_Sigusr1 ==
    /\ prog = "F"
    /\ pc # "idle"
    /\ logged' = logReady
    /\ Ended("sigusr1", 0)
    /\ crashKey' = crashKey
    /\ Forgotten
    /\ UNCHANGED <<prog, hasDir, workers, maint, layout, argv, logReady, files, ckpt, listing, resp, cur, run,
                   onlyResp, prevDone, prevClean, persisted>>

-----------------------------------------------------------------------------
(* 2_dmr_download.py *)

(* the years for which the listing directory holds a file {year}_{state}.csv *)
ListYears == {FirstYear, FirstYear + 1}

(* the permit cell of a listing row, as read; str.strip() of it *)
RawCells == {"A", " A", "B", ""}

Strip(c) == IF c = " A" THEN "A" ELSE c

Ids == {Strip(c) : c \in RawCells} \ {""}

(* the listing files the model starts from: their data rows *)
Listings == {<<>>, <<"B">>, <<"A", "B">>, <<"A", " A">>, <<"", "B">>}

(* the listing directories the model starts from: one file with rows and    *)
(* the others without, or no file of more than one row                      *)
ListingDirs ==
    {l \in [ListYears -> Listings] :
        \/ \E y \in ListYears : \A z \in ListYears \ {y} : l[z] = <<>>
        \/ \A y \in ListYears : Len(l[y]) <= 1}

DKeys == {Key(y, i) : y \in ListYears, i \in Ids}

(* os.path.join(output_dir, '2_dmr_download', str(year), state, f"{npdes_id}.csv") *)
DPath(y, i) == [tree |-> "dmr", region |-> Region, year |-> y, id |-> i]

(* a variant that keeps the error page beside the data, under the name of  *)
(* the data file                                                            *)
EPath_InDataTree(y, i) == [tree |-> "dmr", region |-> Region, year |-> y, id |-> i]

(* os.path.join(output_dir, '2_dmr_download', 'error_html', str(year), state, f"{npdes_id}.html") *)
EPath(y, i) == [tree |-> "error_html", region |-> Region, year |-> y, id |-> i]

DPaths == {DPath(k.year, k.id) : k \in DKeys} \cup {EPath(k.year, k.id) : k \in DKeys}

(* os.path.join(checkpoint_dir, f"{state}_{year}_progress.txt") *)
DStore(y) == [region |-> Region, year |-> y]

RECURSIVE ReadNpdes(_)
(* read_npdes_file: the stripped, non-empty permit cells, in row order *)
ReadNpdes(rows) ==
    IF rows = <<>> THEN <<>>
    ELSE LET npdes_id == Strip(Head(rows))
         IN  IF npdes_id # "" THEN <<npdes_id>> \o ReadNpdes(Tail(rows))
             ELSE ReadNpdes(Tail(rows))

(* what a listing file has around its data rows:                           *)
(*   preamble: how many of the three lines skipped with next(file) it has, *)
(*   column:   its header row names the column 'NPDES Permit Number',      *)
(*   defect:   "csv" when the csv reader raises csv.Error on one of its    *)
(*             lines, "ragged" when a row ends before the permit column    *)
(*             (DictReader gives the row None for it)                      *)
WellFormed == [preamble |-> 3, column |-> TRUE, defect |-> "none"]

(* the exception read_npdes_file ends with: StopIteration of next(file) on *)
(* a file of fewer than three lines, csv.Error of the reader, or           *)
(* AttributeError of None.strip() on a ragged row                          *)
ReadRaises(f) ==
    IF f.preamble < 3 THEN "StopIteration"
    ELSE IF f.defect = "csv" THEN "csv.Error"
    ELSE IF f.column /\ f.defect = "ragged" THEN "AttributeError"
    ELSE "none"

(* read_npdes_file when it returns: row.get('NPDES Permit Number', '') is  *)
(* '' for every row of a file without the column                           *)
ReadNpdesFile(y) ==
    IF layout[y].column THEN ReadNpdes(listing[y]) ELSE <<>>

(* the permit IDs main derives from the listing file of a year *)
DerivedIds(y) ==
    IF ReadRaises(layout[y]) # "none" THEN <<>> ELSE ReadNpdesFile(y)

(* set(line.strip() for line in f) *)
ParseIds(lines) == {Strip(lines[i]) : i \in DOMAIN lines}

(* "FILE OUTPUT FAILED" in response.text or "<html" in response.text.lower() *)
IsErrorPage(text) ==
    Contains(text, "FILE OUTPUT FAILED") \/ Contains(LowerText(text), "<html")

(* the orders os.listdir can return the listing files in *)
ListDirOrders ==
    {o \in [1 .. Cardinality(ListYears) -> ListYears] :
        \A i, j \in DOMAIN o : i # j => o[i] # o[j]}

D_Launch ==
    /\ prog = "D"
    /\ pc = "idle"
    /\ run < MaxRuns
    /\ run' = run + 1
    /\ argv' \in BOOLEAN
    /\ pc' = "d_argv"
    /\ logReady' = FALSE
    /\ logged' = FALSE
    /\ stop' = "none"
    /\ exitCode' = -1
    /\ completed' = {}
    /\ year' = FirstYear
    /\ todo' = <<>>
    /\ ids' = <<>>
    /\ idx' = 1
    /\ resp' = NoResp
    /\ cur' = NoKey
    /\ reqs' = <<>>
    /\ ev' = <<>>
    /\ prevDone' = (stop = "done")
    /\ prevClean' = (stop = "done" /\ \A i \in DOMAIN outs : outs[i] = "store")
    /\ outs' = <<>>
    /\ disk0' = [files |-> files, ckpt |-> ckpt]
    /\ persisted0' = persisted
    /\ crashKey' = IF stop = "killed" THEN crashKey ELSE NoKey
    /\ warned' = <<>>
    /\ UNCHANGED <<prog, hasDir, workers, maint, layout, files, ckpt, listing, onlyResp, persisted>>

(* if len(sys.argv) < 2: print usage; sys.exit(1) *)
D_Usage ==
    /\ pc = "d_argv"
    /\ ~argv
    /\ Ended("usage", 1)
    /\ UNCHANGED <<prog, hasDir, workers, maint, layout, warned, argv, logReady, files, ckpt, listing, resp, cur, run, reqs, ev,
                   onlyResp, prevDone, prevClean, outs, disk0, persisted0, persisted, logged, crashKey>>

(* main(state): logger = setup_logging(output_dir) *)
D_SetupLogging ==
    /\ pc = "d_argv"
    /\ argv
    /\ logReady' = TRUE
    /\ pc' = "d_listdir"
    /\ UNCHANGED <<prog, hasDir, workers, maint, layout, warned, argv, files, ckpt, listing, completed, year, todo,
                   ids, idx, resp, cur, stop, exitCode, logged, run, reqs, ev, onlyResp,
                   prevDone, prevClean, outs, disk0, persisted0, crashKey, persisted>>

(* for filename in os.listdir(state_folder): the order is the file system's *)
D_ListDir ==
    /\ pc = "d_listdir"
    /\ hasDir
    /\ todo' \in ListDirOrders
    /\ pc' = "d_files"
    /\ UNCHANGED <<prog, hasDir, workers, maint, layout, warned, argv, logReady, files, ckpt, listing, completed, year,
                   ids, idx, resp, cur, stop, exitCode, logged, run, reqs, ev, onlyResp,
                   prevDone, prevClean, outs, disk0, persisted0, crashKey, persisted>>

(* if not os.path.isdir(state_folder): logger.error(...); return.  main    *)
(* returns to the __main__ block, which ends: the exit status is 0         *)
D_NoDir ==
    /\ pc = "d_listdir"
    /\ ~hasDir
    /\ Ended("nodir", 0)
    /\ UNCHANGED <<prog, hasDir, workers, maint, layout, warned, argv, logReady, files, ckpt, listing, resp, cur, run,
                   reqs, ev, onlyResp, prevDone, prevClean, outs, disk0, persisted0,
                   persisted, logged, crashKey>>

(* the next listing file with a read_npdes_file whose exception leaves main *)
(* and ends the process with a traceback                                    *)
D_Read_Uncaught ==
    /\ pc = "d_files"
    /\ todo # <<>>
    /\ IF ReadRaises(layout[Head(todo)]) # "none"
         THEN /\ Ended("error", 1)
              /\ warned' = warned
         ELSE /\ year' = Head(todo)
              /\ todo' = Tail(todo)
              /\ ids' = ReadNpdesFile(Head(todo))
              /\ idx' = 1
              /\ warned' = IF ids' = <<>> THEN Append(warned, Head(todo)) ELSE warned
              /\ pc' = IF ids' # <<>> THEN "d_loadckpt" ELSE "d_files"
              /\ UNCHANGED <<stop, exitCode, completed>>
    /\ UNCHANGED <<prog, hasDir, workers, maint, layout, argv, logReady, files, ckpt, listing,
                   resp, cur, logged, run, reqs, ev, onlyResp,
                   prevDone, prevClean, outs, disk0, persisted0, crashKey, persisted>>

(* the next listing file: npdes_ids = read_npdes_file(file_path) inside the *)
(* try of main.  An exception is logged and the file left (continue); a     *)
(* file without permit numbers is logged with a warning                     *)
D_Read ==
    /\ pc = "d_files"
    /\ todo # <<>>
    /\ year' = Head(todo)
    /\ todo' = Tail(todo)
    /\ ids' = IF ReadRaises(layout[Head(todo)]) # "none" THEN <<>>
              ELSE ReadNpdesFile(Head(todo))
    /\ idx' = 1
    /\ warned' = IF ids' = <<>> THEN Append(warned, Head(todo)) ELSE warned
    /\ pc' = IF ids' # <<>> THEN "d_loadckpt" ELSE "d_files"
    /\ UNCHANGED <<prog, hasDir, workers, maint, layout, argv, logReady, files, ckpt, listing, completed,
                   resp, cur, stop, exitCode, logged, run, reqs, ev, onlyResp,
                   prevDone, prevClean, outs, disk0, persisted0, crashKey, persisted>>

(* process_npdes_ids: completed_ids from the checkpoint file of the year *)
D_LoadCheckpoint ==
    /\ pc = "d_loadckpt"
    /\ completed' = ParseIds(ckpt[DStore(year)])
    /\ pc' = "d_loop"
    /\ UNCHANGED <<prog, hasDir, workers, maint, layout, warned, argv, logReady, files, ckpt, listing, year, todo,
                   ids, idx, resp, cur, stop, exitCode, logged, run, reqs, ev, onlyResp,
                   prevDone, prevClean, outs, disk0, persisted0, crashKey, persisted>>

(* if npdes_id in completed_ids: continue *)
D_SkipCompleted ==
    /\ pc = "d_loop"
    /\ idx \in DOMAIN ids
    /\ ids[idx] \in completed
    /\ idx' = idx + 1
    /\ UNCHANGED <<prog, hasDir, workers, maint, layout, warned, pc, argv, logReady, files, ckpt, listing, completed, year, todo,
                   ids, resp, cur, stop, exitCode, logged, run, reqs, ev, onlyResp,
                   prevDone, prevClean, outs, disk0, persisted0, crashKey, persisted>>

(* an existing artifact that ends the loop over the ids instead of passing  *)
(* to the next id                                                          *)
D_SkipExisting_Break ==
    /\ pc = "d_loop"
    /\ idx \in DOMAIN ids
    /\ ids[idx] \notin completed
    /\ files[DPath(year, ids[idx])].exists
    /\ idx' = Len(ids) + 1
    /\ UNCHANGED <<prog, hasDir, workers, maint, layout, warned, pc, argv, logReady, files, ckpt, listing, completed, year, todo,
                   ids, resp, cur, stop, exitCode, logged, run, reqs, ev, onlyResp,
                   prevDone, prevClean, outs, disk0, persisted0, crashKey, persisted>>

(* download_data_for_npdes: if os.path.exists(file_path): return *)
D_SkipExisting ==
    /\ pc = "d_loop"
    /\ idx \in DOMAIN ids
    /\ ids[idx] \notin completed
    /\ files[DPath(year, ids[idx])].exists
    /\ idx' = idx + 1
    /\ UNCHANGED <<prog, hasDir, workers, maint, layout, warned, pc, argv, logReady, files, ckpt, listing, completed, year, todo,
                   ids, resp, cur, stop, exitCode, logged, run, reqs, ev, onlyResp,
                   prevDone, prevClean, outs, disk0, persisted0, crashKey, persisted>>

(* download_data_for_npdes without its test of os.path.exists *)
D_BeginDownload_NoExists ==
    /\ pc = "d_loop"
    /\ idx \in DOMAIN ids
    /\ ids[idx] \notin completed
    /\ ev' = <<>>
    /\ pc' = "d_prewait"
    /\ UNCHANGED <<prog, hasDir, workers, maint, layout, warned, argv, logReady, files, ckpt, listing, completed, year, todo,
                   ids, idx, resp, cur, stop, exitCode, logged, run, reqs, onlyResp,
                   prevDone, prevClean, outs, disk0, persisted0, crashKey, persisted>>

(* download_data_for_npdes up to the pre-request random_wait *)
D_BeginDownload ==
    /\ pc = "d_loop"
    /\ idx \in DOMAIN ids
    /\ ids[idx] \notin completed
    /\ ~files[DPath(year, ids[idx])].exists
    /\ ev' = <<>>
    /\ pc' = "d_prewait"
    /\ UNCHANGED <<prog, hasDir, workers, maint, layout, warned, argv, logReady, files, ckpt, listing, completed, year, todo,
                   ids, idx, resp, cur, stop, exitCode, logged, run, reqs, onlyResp,
                   prevDone, prevClean, outs, disk0, persisted0, crashKey, persisted>>

(* random_wait(3, 10, ...) returns *)
D_PreWait ==
    /\ pc = "d_prewait"
    /\ ev' = Append(ev, "pre")
    /\ pc' = "d_get"
    /\ UNCHANGED <<prog, hasDir, workers, maint, layout, warned, argv, logReady, files, ckpt, listing, completed, year, todo,
                   ids, idx, resp, cur, stop, exitCode, logged, run, reqs, onlyResp,
                   prevDone, prevClean, outs, disk0, persisted0, crashKey, persisted>>

(* requests.get, raise_for_status, and the test for an error page *)
D_Get ==
    /\ pc = "d_get"
    /\ \E r \in UpstreamD :
        /\ resp' = r
        /\ NoteRequest(Key(year, ids[idx]), r)
        /\ IF RequestFails(r)
             THEN pc' = "d_cooldown" /\ outs' = Append(outs, "cooldown")
             ELSE IF IsErrorPage(r.body)
                    THEN pc' = "d_qopen" /\ outs' = Append(outs, "quarantine")
                    ELSE pc' = "d_open" /\ outs' = Append(outs, "store")
    /\ ev' = Append(ev, "get")
    /\ UNCHANGED <<prog, hasDir, workers, maint, layout, warned, argv, logReady, files, ckpt, listing, completed, year, todo,
                   ids, idx, stop, exitCode, logged, run,
                   prevDone, prevClean, disk0, persisted0, crashKey, persisted>>

(* with open(error_file, "w", encoding="utf-8") as f *)
D_QOpen ==
    /\ pc = "d_qopen"
    /\ files' = Opened(files, EPath(year, ids[idx]))
    /\ ev' = Append(ev, "qopen")
    /\ pc' = "d_qwrite"
    /\ UNCHANGED <<prog, hasDir, workers, maint, layout, warned, argv, logReady, ckpt, listing, completed, year, todo,
                   ids, idx, resp, cur, stop, exitCode, logged, run, reqs, onlyResp,
                   prevDone, prevClean, outs, disk0, persisted0, crashKey, persisted>>

(* an error page whose permit is appended to the checkpoint once it is written *)
D_QWrite_Checkpointed ==
    /\ pc = "d_qwrite"
    /\ files' = Written(files, EPath(year, ids[idx]), resp.body)
    /\ ev' = Append(ev, "qwrite")
    /\ IF WriteComplete(files', EPath(year, ids[idx]), resp.body)
         THEN /\ pc' = "d_loop"
              /\ idx' = idx + 1
              /\ resp' = NoResp
              /\ persisted' = persisted \cup {<<Key(year, ids[idx]), "quarantine">>}
              /\ ckpt' = [ckpt EXCEPT ![DStore(year)] = Append(@, ids[idx])]
         ELSE UNCHANGED <<pc, idx, resp, persisted, ckpt>>
    /\ UNCHANGED <<prog, hasDir, workers, maint, layout, warned, argv, logReady, listing, completed, year, todo,
                   ids, cur, stop, exitCode, logged, run, reqs, onlyResp,
                   prevDone, prevClean, outs, disk0, persisted0, crashKey>>

(* f.write(response.text), fragment by fragment, the close, and the return *)
D_QWrite ==
    /\ pc = "d_qwrite"
    /\ files' = Written(files, EPath(year, ids[idx]), resp.body)
    /\ ev' = Append(ev, "qwrite")
    /\ IF WriteComplete(files', EPath(year, ids[idx]), resp.body)
         THEN /\ pc' = "d_loop"
              /\ idx' = idx + 1
              /\ resp' = NoResp
              /\ persisted' = persisted \cup {<<Key(year, ids[idx]), "quarantine">>}
         ELSE UNCHANGED <<pc, idx, resp, persisted>>
    /\ UNCHANGED <<prog, hasDir, workers, maint, layout, warned, argv, logReady, ckpt, listing, completed, year, todo,
                   ids, cur, stop, exitCode, logged, run, reqs, onlyResp,
                   prevDone, prevClean, outs, disk0, persisted0, crashKey>>

(* with open(file_path, "w", encoding="utf-8") as file *)
D_Open ==
    /\ pc = "d_open"
    /\ files' = Opened(files, DPath(year, ids[idx]))
    /\ ev' = Append(ev, "open")
    /\ pc' = "d_write"
    /\ UNCHANGED <<prog, hasDir, workers, maint, layout, warned, argv, logReady, ckpt, listing, completed, year, todo,
                   ids, idx, resp, cur, stop, exitCode, logged, run, reqs, onlyResp,
                   prevDone, prevClean, outs, disk0, persisted0, crashKey, persisted>>

(* a write that hands over to the checkpoint append after its first fragment *)
D_Write_Early ==
    /\ pc = "d_write"
    /\ files' = Written(files, DPath(year, ids[idx]), resp.body)
    /\ ev' = Append(ev, "write")
    /\ pc' = "d_append"
    /\ persisted' = IF WriteComplete(files', DPath(year, ids[idx]), resp.body)
                       THEN persisted \cup {<<Key(year, ids[idx]), "success">>}
                       ELSE persisted
    /\ UNCHANGED <<prog, hasDir, workers, maint, layout, warned, argv, logReady, ckpt, listing, completed, year, todo,
                   ids, idx, resp, cur, stop, exitCode, logged, run, reqs, onlyResp,
                   prevDone, prevClean, outs, disk0, persisted0, crashKey>>

(* file.write(response.text), fragment by fragment, and the close *)
D_Write ==
    /\ pc = "d_write"
    /\ files' = Written(files, DPath(year, ids[idx]), resp.body)
    /\ ev' = Append(ev, "write")
    /\ IF WriteComplete(files', DPath(year, ids[idx]), resp.body)
         THEN /\ pc' = "d_append"
              /\ persisted' = persisted \cup {<<Key(year, ids[idx]), "success">>}
         ELSE UNCHANGED <<pc, persisted>>
    /\ UNCHANGED <<prog, hasDir, workers, maint, layout, warned, argv, logReady, ckpt, listing, completed, year, todo,
                   ids, idx, resp, cur, stop, exitCode, logged, run, reqs, onlyResp,
                   prevDone, prevClean, outs, disk0, persisted0, crashKey>>

(* with open(checkpoint_file, "a") as f: f.write(f"{npdes_id}\n") *)
D_Append ==
    /\ pc = "d_append"
    /\ ckpt' = [ckpt EXCEPT ![DStore(year)] = Append(@, ids[idx])]
    /\ ev' = Append(ev, "append")
    /\ pc' = "d_postwait"
    /\ UNCHANGED <<prog, hasDir, workers, maint, layout, warned, argv, logReady, files, listing, completed, year, todo,
                   ids, idx, resp, cur, stop, exitCode, logged, run, reqs, onlyResp,
                   prevDone, prevClean, outs, disk0, persisted0, crashKey, persisted>>

(* random_wait(10, 30, ...) returns, and so does download_data_for_npdes *)
D_PostWait ==
    /\ pc = "d_postwait"
    /\ ev' = Append(ev, "post")
    /\ idx' = idx + 1
    /\ resp' = NoResp
    /\ pc' = "d_loop"
    /\ UNCHANGED <<prog, hasDir, workers, maint, layout, warned, argv, logReady, files, ckpt, listing, completed, year, todo,
                   ids, cur, stop, exitCode, logged, run, reqs, onlyResp,
                   prevDone, prevClean, outs, disk0, persisted0, crashKey, persisted>>

(* except RequestException: logger.error; time.sleep(30) *)
D_Cooldown ==
    /\ pc = "d_cooldown"
    /\ ev' = Append(ev, "cooldown")
    /\ idx' = idx + 1
    /\ resp' = NoResp
    /\ pc' = "d_loop"
    /\ UNCHANGED <<prog, hasDir, workers, maint, layout, warned, argv, logReady, files, ckpt, listing, completed, year, todo,
                   ids, cur, stop, exitCode, logged, run, reqs, onlyResp,
                   prevDone, prevClean, outs, disk0, persisted0, crashKey, persisted>>

(* a loop over the ids that starts again from the first id when it has     *)
(* reached the last                                                        *)
D_EndIds_Restart ==
    /\ pc = "d_loop"
    /\ idx \notin DOMAIN ids
    /\ idx' = 1
    /\ UNCHANGED <<prog, hasDir, workers, maint, layout, warned, pc, argv, logReady, files, ckpt, listing, completed, year, todo,
                   ids, resp, cur, stop, exitCode, logged, run, reqs, ev, onlyResp,
                   prevDone, prevClean, outs, disk0, persisted0, crashKey, persisted>>

(* the ids of the listing are exhausted: "Completed processing for ..." *)
D_EndIds ==
    /\ pc = "d_loop"
    /\ idx \notin DOMAIN ids
    /\ pc' = "d_files"
    /\ UNCHANGED <<prog, hasDir, workers, maint, layout, warned, argv, logReady, files, ckpt, listing, completed, year, todo,
                   ids, idx, resp, cur, stop, exitCode, logged, run, reqs, ev, onlyResp,
                   prevDone, prevClean, outs, disk0, persisted0, crashKey, persisted>>

(* the listing files are exhausted: "Completed all available years" *)
D_Finish ==
    /\ pc = "d_files"
    /\ todo = <<>>
    /\ Ended("done", 0)
    /\ crashKey' = crashKey
    /\ UNCHANGED <<prog, hasDir, workers, maint, layout, warned, argv, logReady, files, ckpt, listing, resp, cur, run, reqs, ev,
                   onlyResp, prevDone, prevClean, outs, disk0, persisted0, persisted, logged>>

(* handle_sigusr1: logger.info if the global logger is set, print if not;   *)
(* then sys.exit(0)                                                         *)
D_Sigusr1 ==
    /\ prog = "D"
    /\ pc # "idle"
    /\ logged' = TRUE
    /\ Ended("sigusr1", 0)
    /\ crashKey' = crashKey
    /\ Forgotten
    /\ UNCHANGED <<prog, hasDir, workers, maint, layout, argv, logReady, files, ckpt, listing, resp, cur, run,
                   onlyResp, prevDone, prevClean, persisted>>

-----------------------------------------------------------------------------
(* positions between the completed artifact write and the checkpoint append *)
BeforeAppend == {"f_postwait", "f_append", "d_append"}

(* SIGKILL, a node failure: the process is gone between two steps *)
Kill ==
    /\ pc # "idle"
    /\ Ended("killed", 137)
    /\ crashKey' = IF pc \in BeforeAppend THEN cur ELSE NoKey
    /\ Forgotten
    /\ UNCHANGED <<prog, hasDir, workers, maint, layout, argv, logReady, files, ckpt, listing, resp, cur, run,
                   onlyResp, prevDone, prevClean, persisted, logged>>

-----------------------------------------------------------------------------
(* The state before the first invocation: an empty output tree *)

InitCommon ==
    /\ pc = "idle"
    /\ argv = TRUE
    /\ logReady = FALSE
    /\ completed = {}
    /\ year = FirstYear
    /\ todo = <<>>
    /\ ids = <<>>
    /\ idx = 1
    /\ resp = NoResp
    /\ cur = NoKey
    /\ stop = "none"
    /\ exitCode = -1
    /\ logged = FALSE
    /\ run = 0
    /\ reqs = <<>>
    /\ ev = <<>>
    /\ onlyResp = NoResp
    /\ prevDone = FALSE
    /\ prevClean = FALSE
    /\ outs = <<>>
    /\ disk0 = [files |-> files, ckpt |-> ckpt]
    /\ crashKey = NoKey
    /\ persisted = {}
    /\ persisted0 = {}
    /\ warned = <<>>

InitF ==
    /\ prog = "F"
    /\ files = [p \in FPaths |-> Absent]
    /\ ckpt = [s \in {FStore} |-> <<>>]
    /\ listing = <<>>
    /\ layout = <<>>
    /\ hasDir = TRUE
    /\ workers = <<>>
    /\ maint = <<>>
    /\ InitCommon

InitD ==
    /\ prog = "D"
    /\ files = [p \in DPaths |-> Absent]
    /\ ckpt = [s \in {DStore(y) : y \in ListYears} |-> <<>>]
    /\ \/ hasDir = TRUE /\ listing \in ListingDirs
       \/ hasDir = FALSE /\ listing = [y \in ListYears |-> <<>>]
    /\ layout = [y \in ListYears |-> WellFormed]
    /\ workers = <<>>
    /\ maint = <<>>
    /\ InitCommon

Init == InitF \/ InitD

(* the steps a running process of 1_facility_download.py takes by itself *)
RunF ==
    \/ F_Usage \/ F_SetupLogging \/ F_LoadCheckpoint
    \/ F_SkipCompleted \/ F_BeginDownload \/ F_PreWait \/ F_Get
    \/ F_Open \/ F_Write \/ F_PostWait \/ F_Append \/ F_Cooldown
    \/ F_Finish

(* the steps a running process of 2_dmr_download.py takes by itself *)
RunD ==
    \/ D_Usage \/ D_SetupLogging \/ D_NoDir \/ D_ListDir \/ D_Read
    \/ D_LoadCheckpoint \/ D_SkipCompleted \/ D_SkipExisting
    \/ D_BeginDownload \/ D_PreWait \/ D_Get \/ D_QOpen \/ D_QWrite
    \/ D_Open \/ D_Write \/ D_Append \/ D_PostWait \/ D_Cooldown
    \/ D_EndIds \/ D_Finish

(* what the scheduler and the operator do to it *)
Environment == F_Launch \/ D_Launch \/ F_Sigusr1 \/ D_Sigusr1 \/ Kill

Next == RunF \/ RunD \/ Environment

Spec == Init /\ [][Next]_vars

(* A running process keeps taking its steps: the interpreter runs on, the   *)
(* sleeps are finite, and every request comes back with a response or an    *)
(* exception.  Signals and kills may or may not come.                       *)
SpecLive == Init /\ [][Next]_vars /\ WF_vars(RunF \/ RunD)

-----------------------------------------------------------------------------
(* The same processes on a disk that can fail.  An OSError raised by open   *)
(* or write (disk full, stale file handle) is no RequestException: neither  *)
(* download function catches it, nor do process_npdes_ids and main, so the  *)
(* interpreter prints the traceback and exits with status 1.  What reached  *)
(* the file before the error stays there.                                   *)

F_OSError ==
    /\ pc \in {"f_open", "f_write", "f_append"}
    /\ Ended("error", 1)
    /\ crashKey' = NoKey
    /\ Forgotten
    /\ UNCHANGED <<prog, hasDir, workers, maint, layout, argv, logReady, files, ckpt, listing, resp, cur, run,
                   onlyResp, prevDone, prevClean, persisted, logged>>

D_OSError ==
    /\ pc \in {"d_qopen", "d_qwrite", "d_open", "d_write", "d_append"}
    /\ Ended("error", 1)
    /\ crashKey' = NoKey
    /\ Forgotten
    /\ UNCHANGED <<prog, hasDir, workers, maint, layout, argv, logReady, files, ckpt, listing, resp, cur, run,
                   onlyResp, prevDone, prevClean, persisted, logged>>

NextIO == Next \/ F_OSError \/ D_OSError

SpecIO == Init /\ [][NextIO]_vars

-----------------------------------------------------------------------------
(* Two processes of one downloader started with different region codes and  *)
(* running at the same time.  What matters here is which files each of them *)
(* opens for writing, so a file name is the text the code builds, as a      *)
(* sequence of pieces, and a process is reduced to its writes.              *)

(* the region codes given on the command lines *)
Regions == {<<"OH">>, <<"PA">>, <<"OH", "_", "2000">>}

ParIds == {"A"}

(* os.path.join *)
Join(dir, name) == dir \o <<"/">> \o name

(* os.path.join(output_dir, state, f"{year}_{state}.csv") *)
FArtifact(s, y) ==
    Join(Join(<<"1_facility_download">>, s), <<ToString(y), "_">> \o s \o <<".csv">>)

(* the checkpoint file of the facility downloader without the region in its name *)
FCheckpoint_Shared(s) ==
    Join(<<"1_facility_download_logs">>, <<"progress.txt">>)

(* os.path.join(checkpoints_dir, f"{state}_progress.txt") *)
FCheckpoint(s) ==
    Join(<<"1_facility_download_logs">>, s \o <<"_progress.txt">>)

(* os.path.join(output_dir, '2_dmr_download', str(year), state, f"{npdes_id}.csv") *)
DArtifact(s, y, i) ==
    Join(Join(Join(<<"2_dmr_download">>, <<ToString(y)>>), s), <<i, ".csv">>)

(* os.path.join(output_dir, '2_dmr_download', 'error_html', str(year), state, f"{npdes_id}.html") *)
DQuarantine(s, y, i) ==
    Join(Join(Join(Join(<<"2_dmr_download">>, <<"error_html">>), <<ToString(y)>>), s),
         <<i, ".html">>)

(* os.path.join(checkpoint_dir, f"{state}_{year}_progress.txt") *)
DCheckpoint(s, y) ==
    Join(<<"2_dmr_download_checkpoints">>, s \o <<"_", ToString(y), "_progress.txt">>)

(* the variables of the single process, which stay as they are here *)
runVars == <<prog, pc, argv, logReady, files, ckpt, listing, completed, year, todo,
             ids, idx, resp, cur, stop, exitCode, logged, run, reqs, ev, onlyResp,
             prevDone, prevClean, outs, disk0, crashKey, persisted, persisted0, hasDir,
             layout, warned, maint>>

Wrote(w, path) == [workers EXCEPT ![w].written = @ \cup {path}]

(* download_facility_data: the artifact of the year is written *)
W_FWrite(w) ==
    /\ prog = "F"
    /\ workers[w].pc = "loop"
    /\ workers[w].year \in Years
    /\ workers' = [Wrote(w, FArtifact(workers[w].state, workers[w].year))
                      EXCEPT ![w].pc = "wrote"]
    /\ UNCHANGED runVars

(* main: the year is appended to the checkpoint file *)
W_FAppend(w) ==
    /\ prog = "F"
    /\ workers[w].pc = "wrote"
    /\ workers' = [Wrote(w, FCheckpoint(workers[w].state))
                      EXCEPT ![w].pc = "loop", ![w].year = @ + 1]
    /\ UNCHANGED runVars

(* main: the year is skipped, or its request failed: nothing is written *)
W_FNext(w) ==
    /\ prog = "F"
    /\ workers[w].pc = "loop"
    /\ workers[w].year \in Years
    /\ workers' = [workers EXCEPT ![w].year = @ + 1]
    /\ UNCHANGED runVars

(* download_data_for_npdes: the artifact of a permit is written *)
W_DWrite(w) ==
    /\ prog = "D"
    /\ workers[w].pc = "loop"
    /\ workers[w].year \in ListYears
    /\ \E i \in ParIds :
          workers' = [Wrote(w, DArtifact(workers[w].state, workers[w].year, i))
                        EXCEPT ![w].pc = "wrote"]
    /\ UNCHANGED runVars

(* download_data_for_npdes: the permit is appended to the checkpoint file of the year *)
W_DAppend(w) ==
    /\ prog = "D"
    /\ workers[w].pc = "wrote"
    /\ workers' = [Wrote(w, DCheckpoint(workers[w].state, workers[w].year))
                      EXCEPT ![w].pc = "loop"]
    /\ UNCHANGED runVars

(* download_data_for_npdes: the error page of a permit is written *)
W_DQuarantine(w) ==
    /\ prog = "D"
    /\ workers[w].pc = "loop"
    /\ workers[w].year \in ListYears
    /\ \E i \in ParIds :
          workers' = Wrote(w, DQuarantine(workers[w].state, workers[w].year, i))
    /\ UNCHANGED runVars

(* main: the next listing file *)
W_DNext(w) ==
    /\ prog = "D"
    /\ workers[w].pc = "loop"
    /\ workers[w].year \in ListYears
    /\ workers' = [workers EXCEPT ![w].year = @ + 1]
    /\ UNCHANGED runVars

(* two processes, started with different region codes *)
InitPar ==
    /\ prog \in {"F", "D"}
    /\ files = <<>>
    /\ ckpt = <<>>
    /\ listing = <<>>
    /\ layout = <<>>
    /\ hasDir = TRUE
    /\ maint = <<>>
    /\ InitCommon
    /\ workers \in [1 .. 2 -> [state : Regions, pc : {"loop"}, year : {FirstYear},
                               written : {{}}]]
    /\ workers[1].state # workers[2].state

NextPar ==
    \E w \in 1 .. 2 :
        \/ W_FWrite(w) \/ W_FAppend(w) \/ W_FNext(w)
        \/ W_DWrite(w) \/ W_DAppend(w) \/ W_DQuarantine(w) \/ W_DNext(w)

SpecPar == InitPar /\ [][NextPar]_vars

-----------------------------------------------------------------------------
(* The downloaders on inputs left behind by earlier stages: listing files   *)
(* that are truncated, lack the permit column or make the csv reader fail.  *)

(* a listing directory with at least one file that is not well formed; a   *)
(* file of fewer than three lines has no data rows                          *)
InitMalformed ==
    /\ prog = "D"
    /\ files = [p \in DPaths |-> Absent]
    /\ ckpt = [s \in {DStore(y) : y \in ListYears} |-> <<>>]
    /\ hasDir = TRUE
    /\ layout \in [ListYears ->
                       {WellFormed,
                        [WellFormed EXCEPT !.preamble = 0],
                        [WellFormed EXCEPT !.preamble = 2],
                        [WellFormed EXCEPT !.column = FALSE],
                        [WellFormed EXCEPT !.defect = "csv"],
                        [WellFormed EXCEPT !.defect = "ragged"]}]
    /\ \E y \in ListYears : layout[y] # WellFormed
    /\ listing = [y \in ListYears |->
                     IF layout[y].preamble < 3 THEN <<>> ELSE <<"A", "B">>]
    /\ workers = <<>>
    /\ maint = <<>>
    /\ InitCommon

(* lines a checkpoint file of 1_facility_download.py can hold besides the   *)
(* years appended by main: blank, not numeric, the start of a year, a digit *)
(* that is no decimal digit, bytes that are no text                         *)
OddLines == {<<>>, <<Letter>>, <<2, 0>>, <<Superscript2>>, <<Undecodable>>}

(* after one invocation, which counts in run but left no history: the      *)
(* first year is downloaded and checkpointed, and the checkpoint file holds *)
(* one more line                                                            *)
InitCheckpointed ==
    /\ prog = "F"
    /\ files = [p \in FPaths |->
                   IF p = FPath(FirstYear) THEN [exists |-> TRUE, data |-> Csv] ELSE Absent]
    /\ ckpt \in [{FStore} -> {<<FormatYear(FirstYear), l>> : l \in OddLines}
                                  \cup {<<l, FormatYear(FirstYear)>> : l \in OddLines}]
    /\ listing = <<>>
    /\ layout = <<>>
    /\ hasDir = TRUE
    /\ workers = <<>>
    /\ maint = <<>>
    /\ pc = "idle"
    /\ argv = TRUE
    /\ logReady = FALSE
    /\ completed = {}
    /\ year = FirstYear
    /\ todo = <<>>
    /\ ids = <<>>
    /\ idx = 1
    /\ resp = NoResp
    /\ cur = NoKey
    /\ stop = "none"
    /\ exitCode = -1
    /\ logged = FALSE
    /\ run = 1
    /\ reqs = <<>>
    /\ ev = <<>>
    /\ onlyResp = NoResp
    /\ prevDone = FALSE
    /\ prevClean = FALSE
    /\ outs = <<>>
    /\ disk0 = [files |-> files, ckpt |-> ckpt]
    /\ crashKey = NoKey
    /\ persisted = {}
    /\ persisted0 = {}
    /\ warned = <<>>

(* the downloaders started on a malformed listing, on a checkpoint file    *)
(* with odd lines, or without the listing directory                         *)
SpecInput ==
    /\ InitMalformed \/ InitCheckpointed \/ (InitD /\ ~hasDir)
    /\ [][Next]_vars

-----------------------------------------------------------------------------
(* clean_bad_csvs.py, run while no downloader runs.  It walks the output    *)
(* tree of 2_dmr_download.py, moves every .csv whose first 1500 characters  *)
(* hold an error marker to the trash, and then edits the checkpoint files   *)
(* under CHECKPOINT_DIR, the directory the earlier dmr_download.py wrote.   *)

(* os.path.join(CHECKPOINT_DIR, f"{state}_{year}_progress.txt"), with the   *)
(* CHECKPOINT_DIR of clean_bad_csvs.py                                      *)
CleanerCheckpoint(s, y) ==
    Join(<<"checkpoints">>, s \o <<"_", ToString(y), "_progress.txt">>)

(* the file of that name is the checkpoint file 2_dmr_download.py appends   *)
(* to, under its checkpoint_dir                                             *)
IsDownloaderStore(path, y) ==
    path = Join(<<"2_dmr_download_checkpoints">>,
                <<Region, "_", ToString(y), "_progress.txt">>)

(* content = f.read(1500).lower(); "<html" in content or "file output failed" in content *)
CleanerTakes(data) ==
    Contains(LowerText(data), "<html") \/ Contains(LowerText(data), "file output failed")

(* the success artifacts 2_dmr_download.py can have left: a CSV document or *)
(* the error page it takes for one                                          *)
GoodFile == [exists |-> TRUE, data |-> Csv]

BadFile == [exists |-> TRUE, data |-> <<"file output failed">>]

(* the orders os.walk can yield the files of s in *)
WalkOrders(S) ==
    {o \in [1 .. Cardinality(S) -> S] : \A i, j \in DOMAIN o : i # j => o[i] # o[j]}

(* lines = [line.strip() for line in f if line.strip() != npdes_id] *)
WithoutId(lines, i) == SelectSeq(lines, LAMBDA l : Strip(l) # i)

(* "\n".join(lines) + "\n", read back as lines *)
Rewritten(lines) == IF lines = <<>> THEN <<"">> ELSE lines

(* what stays as it is while the pass runs *)
downloaderVars ==
    <<prog, pc, argv, logReady, listing, completed, year, todo, ids, idx, resp, cur,
      stop, exitCode, logged, run, reqs, ev, onlyResp, prevDone, prevClean, outs,
      disk0, crashKey, persisted, persisted0, hasDir, workers, layout, warned>>

(* python clean_bad_csvs.py: os.walk(EPA_DIR) *)
C_Launch ==
    /\ maint.pc = "off"
    /\ \E o \in WalkOrders({k \in DKeys : files[DPath(k.year, k.id)].exists}) :
          maint' = [maint EXCEPT !.pc = "walk", !.queue = o]
    /\ UNCHANGED <<files, ckpt, downloaderVars>>

(* the next .csv of the walk: moved to the trash when it holds a marker *)
C_Examine ==
    /\ maint.pc = "walk"
    /\ maint.queue # <<>>
    /\ LET k == Head(maint.queue)
           p == DPath(k.year, k.id)
       IN  IF CleanerTakes(files[p].data)
             THEN /\ files' = [files EXCEPT ![p] = Absent]
                  /\ maint' = [maint EXCEPT !.queue = Tail(@),
                                            !.trash = @ \cup {k},
                                            !.deleted = Append(@, k)]
             ELSE /\ files' = files
                  /\ maint' = [maint EXCEPT !.queue = Tail(@)]
    /\ UNCHANGED <<ckpt, downloaderVars>>

(* the walk is over: for rel_path, full_path in deleted *)
C_EndWalk ==
    /\ maint.pc = "walk"
    /\ maint.queue = <<>>
    /\ maint' = [maint EXCEPT !.pc = "edit", !.pos = 1]
    /\ UNCHANGED <<files, ckpt, downloaderVars>>

(* if os.path.exists(checkpoint_file) fails: the next deleted file *)
C_EditSkip ==
    /\ maint.pc = "edit"
    /\ maint.pos \in DOMAIN maint.deleted
    /\ LET k == maint.deleted[maint.pos]
           path == CleanerCheckpoint(<<Region>>, k.year)
       IN  IF IsDownloaderStore(path, k.year)
             THEN ckpt[DStore(k.year)] = <<>>
             ELSE maint.old[k.year] = <<>>
    /\ maint' = [maint EXCEPT !.pos = @ + 1]
    /\ UNCHANGED <<files, ckpt, downloaderVars>>

(* the lines without the ID are read, and open(checkpoint_file, "w")        *)
(* empties the file                                                         *)
C_EditOpen ==
    /\ maint.pc = "edit"
    /\ maint.pos \in DOMAIN maint.deleted
    /\ LET k == maint.deleted[maint.pos]
           path == CleanerCheckpoint(<<Region>>, k.year)
       IN  IF IsDownloaderStore(path, k.year)
             THEN /\ ckpt[DStore(k.year)] # <<>>
                  /\ maint' = [maint EXCEPT !.pc = "rewrite",
                                            !.kept = WithoutId(ckpt[DStore(k.year)], k.id)]
                  /\ ckpt' = [ckpt EXCEPT ![DStore(k.year)] = <<>>]
             ELSE /\ maint.old[k.year] # <<>>
                  /\ maint' = [maint EXCEPT !.pc = "rewrite",
                                            !.kept = WithoutId(maint.old[k.year], k.id),
                                            !.old[k.year] = <<>>]
                  /\ ckpt' = ckpt
    /\ UNCHANGED <<files, downloaderVars>>

(* f.write("\n".join(lines) + "\n") *)
C_EditWrite ==
    /\ maint.pc = "rewrite"
    /\ LET k == maint.deleted[maint.pos]
           path == CleanerCheckpoint(<<Region>>, k.year)
       IN  IF IsDownloaderStore(path, k.year)
             THEN /\ ckpt' = [ckpt EXCEPT ![DStore(k.year)] = Rewritten(maint.kept)]
                  /\ maint' = [maint EXCEPT !.pc = "edit", !.pos = @ + 1, !.kept = <<>>]
             ELSE /\ ckpt' = ckpt
                  /\ maint' = [maint EXCEPT !.pc = "edit", !.pos = @ + 1, !.kept = <<>>,
                                            !.old[k.year] = Rewritten(maint.kept)]
    /\ UNCHANGED <<files, downloaderVars>>

(* the deleted list is exhausted: the log of the deletions, and the end *)
C_Finish ==
    /\ maint.pc = "edit"
    /\ maint.pos \notin DOMAIN maint.deleted
    /\ maint' = [maint EXCEPT !.pc = "done"]
    /\ UNCHANGED <<files, ckpt, downloaderVars>>

(* the pass is interrupted between two steps *)
C_Kill ==
    /\ maint.pc \in {"walk", "edit", "rewrite"}
    /\ maint' = [maint EXCEPT !.pc = "killed"]
    /\ UNCHANGED <<files, ckpt, downloaderVars>>

(* the disk after runs of 2_dmr_download.py and, before them, of            *)
(* dmr_download.py: every stored artifact is checkpointed, at least one of  *)
(* them is an error page, and the directory of the earlier checkpoints is   *)
(* empty or holds every permit                                              *)
InitClean ==
    /\ prog = "D"
    /\ files \in [DPaths -> {Absent, GoodFile, BadFile}]
    /\ \A k \in DKeys : files[EPath(k.year, k.id)] = Absent
    /\ \E k \in DKeys : files[DPath(k.year, k.id)] = BadFile
    /\ ckpt = [s \in {DStore(y) : y \in ListYears} |->
                  SelectSeq(<<"A", "B">>, LAMBDA i : files[DPath(s.year, i)].exists)]
    /\ listing = [y \in ListYears |-> <<"A", "B">>]
    /\ layout = [y \in ListYears |-> WellFormed]
    /\ hasDir = TRUE
    /\ workers = <<>>
    /\ \E o \in {<<>>, <<"A", "B">>} :
          maint = [pc |-> "off", queue |-> <<>>, deleted |-> <<>>, pos |-> 1,
                   kept |-> <<>>, trash |-> {}, old |-> [y \in ListYears |-> o]]
    /\ InitCommon

NextClean ==
    \/ C_Launch \/ C_Examine \/ C_EndWalk \/ C_EditSkip \/ C_EditOpen
    \/ C_EditWrite \/ C_Finish \/ C_Kill

SpecClean == InitClean /\ [][NextClean]_vars

-----------------------------------------------------------------------------
(* The earlier per-state variants dmr_download.py,                          *)
(* download_discharge_monitoring_report.py and facility_download.py.  Each  *)
(* registers handle_sigusr1 at import; the handler calls logger.info on the *)
(* module-level name logger, which none of the three ever binds: main       *)
(* assigns its own local logger.                                            *)

OldPrograms == {"dmr_download", "download_discharge_monitoring_report", "facility_download"}

(* the two DMR variants derive their keys from the listing files *)
ParsesListings(p) == p # "facility_download"

(* dmr_download.py alone wraps read_npdes_file in try/except Exception and   *)
(* tests the body for an error page                                         *)
CatchesReadErrors(p) == p = "dmr_download"

(* os.path.join(output_dir, 'EPA-WWTP', str(year), state, f"{npdes_id}.csv"), *)
(* os.path.join(output_dir, state, f"{year}_{state}.csv")                    *)
OPath(y, i) ==
    IF i = NoId THEN [tree |-> "facility_data", region |-> Region, year |-> y, id |-> NoId]
    ELSE [tree |-> "EPA-WWTP", region |-> Region, year |-> y, id |-> i]

(* os.path.join(output_dir, 'EPA-WWTP', 'error_html', str(year), state, f"{npdes_id}.html") *)
OEPath(y, i) == [tree |-> "EPA-WWTP/error_html", region |-> Region, year |-> y, id |-> i]

(* checkpoints/{state}_{year}_progress.txt, checkpoints/{state}_facility_progress.txt *)
OStore(y) == [region |-> Region, year |-> y]

(* checkpoints/{state}_progress.txt, written when the state is finished *)
OStateStore == [region |-> Region, year |-> -1]

(* the key in hand: (year, permit) or the year alone *)
OKey == IF ParsesListings(prog) THEN Key(year, ids[idx]) ELSE Key(ids[idx], NoId)

(* the line of the key in its checkpoint file: f"{npdes_id}\n", f"{year}\n" *)
OLine == IF ParsesListings(prog) THEN ids[idx] ELSE FormatYear(ids[idx])

UpstreamOld == {Exc, Http(200, Csv), Http(200, <<"<html">>)}

(* what no step of the earlier variants changes *)
oldFrame ==
    <<hasDir, workers, maint, layout, warned, argv, cur, onlyResp, prevDone, prevClean,
      outs, disk0, crashKey, persisted, persisted0, listing>>

(* python <variant>.py STATE *)
O_Launch ==
    /\ prog \in OldPrograms
    /\ pc = "idle"
    /\ run < MaxRuns
    /\ run' = run + 1
    /\ pc' = "o_setup"
    /\ logReady' = FALSE
    /\ logged' = FALSE
    /\ stop' = "none"
    /\ exitCode' = -1
    /\ completed' = {}
    /\ todo' = <<>>
    /\ ids' = <<>>
    /\ idx' = 1
    /\ resp' = NoResp
    /\ reqs' = <<>>
    /\ ev' = <<>>
    /\ UNCHANGED <<prog, files, ckpt, year, oldFrame>>

(* main: logger = setup_logging(output_dir), a local of main; then the      *)
(* listing directory, or the checkpoint of the years                        *)
O_SetupLogging ==
    /\ pc = "o_setup"
    /\ logReady' = TRUE
    /\ IF ParsesListings(prog)
         THEN /\ todo' \in ListDirOrders
              /\ pc' = "o_files"
              /\ UNCHANGED <<ids, idx, completed>>
         ELSE /\ ids' = [i \in 1 .. Cardinality(ListYears) |-> FirstYear + i - 1]
              /\ idx' = 1
              /\ completed' = Range(ckpt[OStore(0)])
              /\ pc' = "o_loop"
              /\ todo' = todo
    /\ UNCHANGED <<prog, files, ckpt, year, resp, stop, exitCode, logged, run, reqs, ev,
                   oldFrame>>

(* main: the next listing file is opened by read_npdes_file *)
O_Open ==
    /\ pc = "o_files"
    /\ todo # <<>>
    /\ year' = Head(todo)
    /\ todo' = Tail(todo)
    /\ pc' = "o_parse"
    /\ UNCHANGED <<prog, logReady, files, ckpt, completed, ids, idx, resp, stop, exitCode,
                   logged, run, reqs, ev, oldFrame>>

(* read_npdes_file returns; process_npdes_ids loads the checkpoint *)
O_Parsed ==
    /\ pc = "o_parse"
    /\ ids' = ReadNpdes(listing[year])
    /\ idx' = 1
    /\ completed' = ParseIds(ckpt[OStore(year)])
    /\ pc' = IF ids' # <<>> THEN "o_loop" ELSE "o_files"
    /\ UNCHANGED <<prog, logReady, files, ckpt, year, todo, resp, stop, exitCode,
                   logged, run, reqs, ev, oldFrame>>

(* the key is in the checkpoint, or its artifact exists *)
O_Skip ==
    /\ pc = "o_loop"
    /\ idx \in DOMAIN ids
    /\ OLine \in completed \/ files[OPath(OKey.year, OKey.id)].exists
    /\ idx' = idx + 1
    /\ UNCHANGED <<prog, pc, logReady, files, ckpt, completed, year, todo, ids, resp, stop,
                   exitCode, logged, run, reqs, ev, oldFrame>>

(* the download function up to the end of the pre-request random_wait *)
O_Request ==
    /\ pc = "o_loop"
    /\ idx \in DOMAIN ids
    /\ OLine \notin completed
    /\ ~files[OPath(OKey.year, OKey.id)].exists
    /\ pc' = "o_get"
    /\ UNCHANGED <<prog, logReady, files, ckpt, completed, year, todo, ids, idx, resp, stop,
                   exitCode, logged, run, reqs, ev, oldFrame>>

(* requests.get and raise_for_status, and what is done with the response:   *)
(* the except branch, the error page of dmr_download.py, or the artifact    *)
(* and the checkpoint line                                                  *)
O_Get ==
    /\ pc = "o_get"
    /\ \E r \in UpstreamOld :
        /\ resp' = r
        /\ reqs' = Append(reqs, OKey)
        /\ IF RequestFails(r)
             THEN /\ pc' = "o_sleep"
                  /\ UNCHANGED <<files, ckpt, idx>>
             ELSE IF CatchesReadErrors(prog) /\ IsErrorPage(r.body)
                    THEN /\ files' = [files EXCEPT ![OEPath(OKey.year, OKey.id)] =
                                          [exists |-> TRUE, data |-> r.body]]
                         /\ idx' = idx + 1
                         /\ pc' = "o_loop"
                         /\ ckpt' = ckpt
                    ELSE /\ files' = [files EXCEPT ![OPath(OKey.year, OKey.id)] =
                                          [exists |-> TRUE, data |-> r.body]]
                         /\ ckpt' = [ckpt EXCEPT ![OStore(IF ParsesListings(prog) THEN year ELSE 0)] =
                                                  Append(@, OLine)]
                         /\ pc' = "o_sleep"
                         /\ idx' = idx
    /\ UNCHANGED <<prog, logReady, completed, year, todo, ids, stop, exitCode, logged, run,
                   ev, oldFrame>>

(* random_wait(10, 30, ...) or time.sleep(30) returns *)
O_Sleep ==
    /\ pc = "o_sleep"
    /\ idx' = idx + 1
    /\ resp' = NoResp
    /\ pc' = "o_loop"
    /\ UNCHANGED <<prog, logReady, files, ckpt, completed, year, todo, ids, stop, exitCode,
                   logged, run, reqs, ev, oldFrame>>

(* the keys of the listing file are exhausted *)
O_EndIds ==
    /\ pc = "o_loop"
    /\ ParsesListings(prog)
    /\ idx \notin DOMAIN ids
    /\ pc' = "o_files"
    /\ UNCHANGED <<prog, logReady, files, ckpt, completed, year, todo, ids, idx, resp, stop,
                   exitCode, logged, run, reqs, ev, oldFrame>>

(* main ends: the DMR variants write the state checkpoint first *)
O_Finish ==
    /\ \/ ParsesListings(prog) /\ pc = "o_files" /\ todo = <<>>
       \/ ~ParsesListings(prog) /\ pc = "o_loop" /\ idx \notin DOMAIN ids
    /\ ckpt' = IF ParsesListings(prog)
                 THEN [ckpt EXCEPT ![OStateStore] = <<"Finished processing">>]
                 ELSE ckpt
    /\ Ended("done", 0)
    /\ UNCHANGED <<prog, logReady, files, resp, logged, run, reqs, ev, oldFrame>>

(* SIGUSR1, once per run: handle_sigusr1 evaluates logger.info and raises   *)
(* NameError before it logs or reaches sys.exit(0).  The exception surfaces *)
(* where main was interrupted: inside the try around read_npdes_file of     *)
(* dmr_download.py it is caught by except Exception and the loop goes on to *)
(* the next listing file; anywhere else nothing catches it and the          *)
(* interpreter ends with a traceback and status 1.                          *)
O_Sigusr1 ==
    /\ prog \in OldPrograms
    /\ pc # "idle"
    /\ "sigusr1" \notin Range(ev)
    /\ ev' = Append(ev, "sigusr1")
    /\ logged' = FALSE
    /\ IF CatchesReadErrors(prog) /\ pc = "o_parse"
         THEN /\ pc' = "o_files"
              /\ UNCHANGED <<stop, exitCode, completed, year, todo, ids, idx>>
         ELSE Ended("error", 1)
    /\ UNCHANGED <<prog, logReady, files, ckpt, resp, run, reqs, oldFrame>>

InitOld ==
    /\ prog \in OldPrograms
    /\ files = [p \in {OPath(y, i) : y \in ListYears, i \in Ids \cup {NoId}}
                        \cup {OEPath(y, i) : y \in ListYears, i \in Ids} |-> Absent]
    /\ ckpt = [s \in {OStore(y) : y \in ListYears \cup {0}} \cup {OStateStore} |-> <<>>]
    /\ listing \in IF ParsesListings(prog) THEN ListingDirs ELSE {<<>>}
    /\ layout = <<>>
    /\ hasDir = TRUE
    /\ workers = <<>>
    /\ maint = <<>>
    /\ InitCommon

NextOld ==
    \/ O_Launch \/ O_SetupLogging \/ O_Open \/ O_Parsed \/ O_Skip \/ O_Request
    \/ O_Get \/ O_Sleep \/ O_EndIds \/ O_Finish \/ O_Sigusr1

SpecOld == InitOld /\ [][NextOld]_vars

-----------------------------------------------------------------------------
(* Vocabulary of the properties *)

(* the outcome the specification gives a response: transport failure for an *)
(* exception or a non-2xx status, no data for a 2xx body with a marker in   *)
(* any letter case, success otherwise                                       *)
Is2xx(r) == ~r.exc /\ r.status >= 200 /\ r.status < 300

HasMarker(body) ==
    Contains(LowerText(body), "file output failed") \/ Contains(LowerText(body), "<html")

Outcome(r) ==
    IF ~Is2xx(r) THEN "TransportFailure"
    ELSE IF HasMarker(r.body) THEN "NoDataAvailable"
    ELSE "Success"

(* the process has ended *)
Stopped == pc = "idle" /\ stop # "none"

(* ... by reaching the end of its keys *)
Finished == pc = "idle" /\ stop = "done"

(* a request has just returned and nothing has been done with it yet *)
JustRequested == pc \in {"f_cooldown", "f_open", "d_cooldown", "d_qopen", "d_open"}

(* the success path of a key, and the membership of a key in a checkpoint *)
SuccessPath(k) == IF prog = "F" THEN FPath(k.year) ELSE DPath(k.year, k.id)

InCheckpoint(c, k) ==
    IF prog = "F" THEN k.year \in ParseYears(c[FStore])
    ELSE k.id \in ParseIds(c[DStore(k.year)])

(* the keys of the scope of the invocation *)
ScopeKeys ==
    IF prog = "F" THEN FKeys
    ELSE {Key(y, i) : y \in ListYears, i \in Ids} \cap
         {k \in DKeys : k.id \in Range(DerivedIds(k.year))}

(* a key the invocation found pending: no checkpoint entry and no artifact *)
PendingAtStart(k) ==
    /\ ~InCheckpoint(disk0.ckpt, k)
    /\ ~disk0.files[SuccessPath(k)].exists

(* a key the invocation has to fetch: F looks at the checkpoint alone *)
DueAtStart(k) ==
    IF prog = "F" THEN ~InCheckpoint(disk0.ckpt, k) ELSE PendingAtStart(k)

SameDisk == files = disk0.files /\ ckpt = disk0.ckpt

RECURSIVE IsSubseq(_, _)
(* a is b with some elements left out *)
IsSubseq(a, b) ==
    IF a = <<>> THEN TRUE
    ELSE IF b = <<>> THEN FALSE
    ELSE IF Head(a) = Head(b) THEN IsSubseq(Tail(a), Tail(b))
    ELSE IsSubseq(a, Tail(b))

(* the keys of one year, in the order of the enumeration *)
YearKeys(y) ==
    IF prog = "F" THEN <<FKey(y)>>
    ELSE [i \in DOMAIN DerivedIds(y) |-> Key(y, DerivedIds(y)[i])]

RequestsOf(y) == SelectSeq(reqs, LAMBDA k : k.year = y)

-----------------------------------------------------------------------------
(* C1 (as claimed): when the process has stopped while a response that is a *)
(* Success was in hand for key K, either K's success artifact holds exactly *)
(* the returned body, or K has neither a success artifact nor a checkpoint  *)
(* entry.                                                                   *)
C1_NoSilentLoss ==
    (Stopped /\ resp # NoResp /\ Outcome(resp) = "Success") =>
        \/ WriteComplete(files, SuccessPath(cur), resp.body)
        \/ (~files[SuccessPath(cur)].exists /\ ~InCheckpoint(ckpt, cur))

-----------------------------------------------------------------------------
(* C2: when the previous invocation was killed between the completed write  *)
(* of K's artifact and K's checkpoint append, the next invocation always    *)
(* has a step of its own to take until it ends, and when it has reached the *)
(* end of its keys its exit status is 0, it has either requested K again    *)
(* (1_facility_download.py) or left K out and K's artifact as it found it   *)
(* (2_dmr_download.py), and it has requested every key it found pending.    *)
C2_Resumable ==
    (crashKey # NoKey /\ stop # "killed") =>
        /\ (pc # "idle") => ENABLED (RunF \/ RunD)
        /\ Finished =>
            /\ exitCode = 0
            /\ \/ crashKey \in Range(reqs)
               \/ /\ files[SuccessPath(crashKey)].exists
                  /\ files[SuccessPath(crashKey)] = disk0.files[SuccessPath(crashKey)]
            /\ prog = "F" => crashKey \in Range(reqs)
            /\ prog = "D" => crashKey \notin Range(reqs)
            /\ \A k \in ScopeKeys : PendingAtStart(k) => k \in Range(reqs)

(* a resumed run that re-fetched or skipped K and went on to fetch another key *)
C2_Witness ==
    /\ Finished
    /\ crashKey # NoKey
    /\ \E k \in Range(reqs) : k # crashKey /\ PendingAtStart(k)

-----------------------------------------------------------------------------
(* C3 (as claimed), for an upstream that gives every request one and the    *)
(* same response: the second of two invocations that both reach the end of  *)
(* their keys issues no request and leaves the file tree as it found it.    *)
C3_IdempotentAsClaimed ==
    (Finished /\ prevDone /\ onlyResp # Mixed) => (reqs = <<>> /\ SameDisk)

(* C3 (amended): when no request of the first invocation ended in the       *)
(* cooldown or in the quarantine, the second of two invocations that both   *)
(* reach the end of their keys issues no request and leaves the file tree   *)
(* as it found it.                                                          *)
C3_Idempotent ==
    (Finished /\ prevClean) => (reqs = <<>> /\ SameDisk)

(* a second run after a first run that stored a success *)
C3_Witness ==
    /\ Finished
    /\ prevClean
    /\ persisted0 # {}
    /\ persisted0 = persisted

-----------------------------------------------------------------------------
(* C4: an invocation never requests a key whose checkpoint entry it found,  *)
(* requests keys in the order of the enumeration (ascending years in F, the *)
(* order of the listing rows within a year in D), and by the time it        *)
(* reaches the end it has requested every key it had to fetch.              *)
C4_Ordering ==
    /\ \A i \in DOMAIN reqs : ~InCheckpoint(disk0.ckpt, reqs[i])
    /\ prog = "F" => \A i, j \in DOMAIN reqs : i < j => reqs[i].year < reqs[j].year
    /\ prog = "D" => \A y \in ListYears : IsSubseq(RequestsOf(y), YearKeys(y))
    /\ Finished => \A k \in ScopeKeys : DueAtStart(k) => k \in Range(reqs)

(* the enumeration [K1, K2, K3] with K1 checkpointed: K2, then K3 *)
C4_Witness ==
    /\ Finished
    /\ prog = "F"
    /\ InCheckpoint(disk0.ckpt, FKey(FirstYear))
    /\ Len(reqs) >= 2
    /\ reqs[1] = FKey(FirstYear + 1)
    /\ reqs[2] = FKey(FirstYear + 2)

-----------------------------------------------------------------------------
(* C5 (as claimed): in 2_dmr_download.py a 2xx response whose body contains *)
(* "file output failed" in any letter case goes to the quarantine and never *)
(* to the success path or the checkpoint, and a response with status 500    *)
(* goes to the cooldown.                                                    *)
C5_Classification ==
    (prog = "D" /\ pc # "idle" /\ resp # NoResp) =>
        /\ (Is2xx(resp) /\ Contains(LowerText(resp.body), "file output failed"))
              => pc \in {"d_qopen", "d_qwrite"}
        /\ (~resp.exc /\ resp.status = 500) => pc = "d_cooldown"

-----------------------------------------------------------------------------
(* C6 (as claimed): in 1_facility_download.py a 200 response with a CSV     *)
(* body is written to the success path and then checkpointed, and a 200     *)
(* response whose body contains "<html" is not written to the success path  *)
(* and not checkpointed.                                                    *)
C6_TopLevelScenario ==
    (prog = "F" /\ pc # "idle" /\ resp # NoResp /\ ~resp.exc /\ resp.status = 200) =>
        /\ resp.body = Csv => pc \in {"f_open", "f_write", "f_postwait", "f_append"}
        /\ Contains(resp.body, "<html")
              => pc \notin {"f_open", "f_write", "f_postwait", "f_append"}

-----------------------------------------------------------------------------
(* C7 (as claimed): after a request that raised or returned a non-2xx       *)
(* status, the process is in the cooldown sleep and has opened no artifact  *)
(* and appended nothing to the checkpoint for the key.                      *)
C7_TransportFailure ==
    (pc # "idle" /\ resp # NoResp /\ Outcome(resp) = "TransportFailure") =>
        /\ pc \in {"f_cooldown", "d_cooldown"}
        /\ Range(ev) \subseteq {"pre", "get"}

-----------------------------------------------------------------------------
(* C8 (as claimed): no invocation requests a key whose Success or           *)
(* NoDataAvailable outcome an earlier invocation has put on disk.           *)
C8_ExactlyOnceAsClaimed ==
    JustRequested =>
        /\ <<cur, "success">> \notin persisted0
        /\ <<cur, "quarantine">> \notin persisted0

(* C8 (amended): no request is ever issued for a key whose success outcome  *)
(* is on disk (the completed success artifact, and in F the checkpoint      *)
(* entry), whether an earlier invocation or this one put it there.          *)
C8_ExactlyOnce ==
    JustRequested => <<cur, "success">> \notin persisted

(* a later run that found a stored success, left it alone and fetched another key *)
C8_Witness ==
    /\ Finished
    /\ reqs # <<>>
    /\ \E k \in ScopeKeys : <<k, "success">> \in persisted0 /\ k \notin Range(reqs)

-----------------------------------------------------------------------------
(* C9 (as claimed): within one invocation no key is requested again after a *)
(* request for it ended in the cooldown of a transport failure.             *)
C9_NoRetry ==
    \A i, j \in DOMAIN reqs : (i < j /\ reqs[i] = reqs[j]) => outs[i] # "cooldown"

-----------------------------------------------------------------------------
(* C10 (as claimed): a process ended by SIGUSR1 has logged the event and    *)
(* has exit status 0.                                                       *)
C10_Preemption ==
    (pc = "idle" /\ stop = "sigusr1") => (logged /\ exitCode = 0)

-----------------------------------------------------------------------------
(* C11: a downloader started without the region argument stays in its       *)
(* __main__ block, where the usage branch (the usage message and the exit)  *)
(* is the step it can take: it sets up no logging (and so creates no        *)
(* directory), loads no checkpoint, issues no request and leaves the disk   *)
(* as it found it; once it has ended by the usage branch its exit status is *)
(* not 0.                                                                   *)
C11_UsageError ==
    /\ (pc # "idle" /\ ~argv) =>
          /\ pc \in {"f_argv", "d_argv"}
          /\ ENABLED (F_Usage \/ D_Usage)
          /\ ~ENABLED (F_SetupLogging \/ D_SetupLogging)
          /\ ~logReady /\ completed = {} /\ reqs = <<>> /\ SameDisk
    /\ (pc = "idle" /\ stop = "usage") =>
          /\ ~argv
          /\ exitCode # 0
          /\ ~logReady /\ reqs = <<>> /\ SameDisk

(* a usage error of an invocation that found artifacts of an earlier one *)
C11_Witness ==
    /\ pc = "idle"
    /\ stop = "usage"
    /\ \E p \in DOMAIN files : files[p].exists

-----------------------------------------------------------------------------
(* C12 (as claimed): when 2_dmr_download.py has ended after it found the    *)
(* listing directory of the region missing, it has issued no request and    *)
(* its exit status is not 0.                                                *)
C12_MissingBaseDir ==
    (prog = "D" /\ ~hasDir /\ argv /\ pc = "idle" /\ stop \notin {"none", "killed", "sigusr1"}) =>
        /\ reqs = <<>>
        /\ SameDisk
        /\ exitCode # 0

-----------------------------------------------------------------------------
(* C13 (as claimed): a run that has reached the end of its keys has exit    *)
(* status 0 whatever its requests ended in, and a process that ended by     *)
(* itself with another exit status ended in the usage branch.               *)
C13_ExitStatus ==
    /\ Finished => exitCode = 0
    /\ (pc = "idle" /\ stop \notin {"none", "killed"} /\ exitCode # 0) => stop = "usage"

-----------------------------------------------------------------------------
(* C20 (as claimed): no exception raised while a key is processed ends the  *)
(* process: a process never ends by an error, and while a key is being      *)
(* written or checkpointed the process has a step to the next key or to the *)
(* rest of this key.                                                        *)
C20_ExceptionContainment ==
    /\ ~(pc = "idle" /\ stop = "error")
    /\ (pc \in {"f_open", "f_write", "f_append", "d_qopen", "d_qwrite",
                "d_open", "d_write", "d_append"}) => ENABLED (RunF \/ RunD)

-----------------------------------------------------------------------------
(* C14 (as claimed): a request is issued only for a key that had no entry   *)
(* in the checkpoint the invocation loaded and has no file at its success   *)
(* path; and a run that reaches the end has requested every key that had    *)
(* neither.                                                                 *)
C14_SkipRule ==
    /\ JustRequested =>
          /\ ~InCheckpoint(disk0.ckpt, cur)
          /\ ~files[SuccessPath(cur)].exists
    /\ Finished => \A k \in ScopeKeys : PendingAtStart(k) => k \in Range(reqs)

-----------------------------------------------------------------------------
(* C15: two processes of one downloader that run at the same time with      *)
(* different region codes never write the same file: no checkpoint file,    *)
(* success artifact or quarantine artifact written by one is written by the *)
(* other.                                                                   *)
C15_ScopePartitioning ==
    (workers # <<>> /\ workers[1].state # workers[2].state) =>
        workers[1].written \cap workers[2].written = {}

(* both processes have written artifacts and checkpoint files *)
C15_Witness ==
    /\ workers # <<>>
    /\ workers[1].state # workers[2].state
    /\ \A w \in 1 .. 2 : Cardinality(workers[w].written) >= 2 /\ workers[w].pc = "loop"

-----------------------------------------------------------------------------
(* a file that holds a whole response body *)
Complete(f) == f.exists /\ f.data \in Bodies

(* C16: in every state, a stopped process included, every key with an entry *)
(* in the checkpoint has a completely written success artifact; while the   *)
(* artifact of a key is being opened or written the key has no checkpoint   *)
(* entry, and when the process is about to append the key the artifact      *)
(* holds the whole body of the response.                                    *)
C16_CheckpointAfterArtifact ==
    /\ \A k \in ScopeKeys : InCheckpoint(ckpt, k) => Complete(files[SuccessPath(k)])
    /\ (pc \in {"f_open", "f_write", "d_open", "d_write"}) => ~InCheckpoint(ckpt, cur)
    /\ (pc \in {"f_postwait", "f_append", "d_append"}) =>
          WriteComplete(files, SuccessPath(cur), resp.body)

(* a process stopped in the middle of the write of one key after it had     *)
(* checkpointed another                                                     *)
C16_Witness ==
    /\ Stopped
    /\ \E k \in ScopeKeys : InCheckpoint(ckpt, k)
    /\ \E k \in ScopeKeys : files[SuccessPath(k)].exists /\ ~Complete(files[SuccessPath(k)])

-----------------------------------------------------------------------------
(* C17 (as claimed): in 2_dmr_download.py a key whose success artifact was  *)
(* not completely written when the earlier invocation was stopped (the file *)
(* is missing, empty or truncated when the next invocation starts) is       *)
(* requested by the next invocation that reaches the end of its keys.       *)
C17_InterruptedKeyPending ==
    (prog = "D" /\ Finished) =>
        \A k \in ScopeKeys :
            ~Complete(disk0.files[SuccessPath(k)]) => k \in Range(reqs)

-----------------------------------------------------------------------------
(* a key whose error page is on disk and whose success artifact never was   *)
(* completely written                                                       *)
QuarantinedOnly(k, done) == <<k, "quarantine">> \in done /\ <<k, "success">> \notin done

(* while download_data_for_npdes handles a response it took for an error page *)
C18_WhileRouted ==
    (pc \in {"d_qopen", "d_qwrite"}) =>
        /\ IsErrorPage(resp.body)
        /\ ~files[DPath(cur.year, cur.id)].exists
        /\ ~InCheckpoint(ckpt, cur)

(* what is left of it *)
C18_Afterwards ==
    \A k \in DKeys :
        (prog = "D" /\ QuarantinedOnly(k, persisted)) =>
            /\ files[EPath(k.year, k.id)].exists
            /\ ~Complete(files[DPath(k.year, k.id)])
            /\ ~InCheckpoint(ckpt, k)

(* the later runs *)
C18_LaterRuns ==
    (prog = "D" /\ Finished) =>
        \A k \in ScopeKeys :
            (QuarantinedOnly(k, persisted0) /\ PendingAtStart(k)) => k \in Range(reqs)

(* the steps of the routing *)
C18_Steps ==
    (pc \in {"d_qopen", "d_qwrite"} /\ pc' # "idle") =>
        /\ ckpt' = ckpt
        /\ \A p \in DOMAIN files : p # EPath(cur.year, cur.id) => files'[p] = files[p]
        /\ (pc' = "d_loop") => files'[EPath(cur.year, cur.id)] = [exists |-> TRUE, data |-> resp.body]

(* C18: in 2_dmr_download.py a response taken for an error page is written  *)
(* verbatim to the quarantine path of its key and to no other file, nothing *)
(* is appended to a checkpoint file, the key keeps having neither a success *)
(* artifact nor a checkpoint entry, and a later run that reaches the end of *)
(* its keys requests the key again.                                         *)
C18_NoDataRouting ==
    /\ [](C18_WhileRouted /\ C18_Afterwards /\ C18_LaterRuns)
    /\ [][C18_Steps]_vars

(* a later run has requested again a key that an earlier run quarantined *)
C18_Witness ==
    /\ prog = "D"
    /\ Finished
    /\ \E k \in ScopeKeys : QuarantinedOnly(k, persisted0) /\ k \in Range(reqs)

-----------------------------------------------------------------------------
(* C19 (as claimed): in 2_dmr_download.py a response that is not 2xx and    *)
(* whose body holds a marker goes to the cooldown, with no quarantine and   *)
(* no success artifact opened; and the handling of one request performs the *)
(* side effects of one outcome only.                                        *)
C19_ClassificationPriority ==
    (prog = "D" /\ pc # "idle" /\ resp # NoResp) =>
        /\ (~Is2xx(resp) /\ HasMarker(resp.body)) =>
              /\ pc = "d_cooldown"
              /\ Range(ev) \subseteq {"pre", "get"}
        /\ Cardinality({"cooldown", "qopen", "open"} \cap Range(ev)) <= 1

-----------------------------------------------------------------------------
(* the listing file of a year yields no permit IDs as it is *)
C21_Malformed(y) == ReadRaises(layout[y]) # "none" \/ ~layout[y].column

(* main is in its loop over the listing files and has left the file of y behind *)
C21_Visited(y) ==
    /\ pc \notin {"idle", "d_argv", "d_listdir"}
    /\ y \notin Range(todo)

(* C21: in 2_dmr_download.py a listing file that is truncated, lacks the    *)
(* permit column, has a ragged row or makes the csv reader fail never ends  *)
(* the process (the process always has a step of its own and never ends by  *)
(* an error); no key of its year is requested; main has logged the file     *)
(* when it has left it behind; and a run that reaches the end has requested *)
(* every pending key of every other listing file.                           *)
C21_MalformedListing ==
    prog = "D" =>
        /\ (pc # "idle") => ENABLED RunD
        /\ ~(pc = "idle" /\ stop = "error")
        /\ \A i \in DOMAIN reqs : ~C21_Malformed(reqs[i].year)
        /\ \A y \in ListYears : (C21_Malformed(y) /\ C21_Visited(y)) => y \in Range(warned)
        /\ Finished =>
              /\ \A y \in ListYears : C21_Malformed(y) => y \in Range(warned)
              /\ \A y \in ListYears : \A i \in DOMAIN YearKeys(y) :
                    (~C21_Malformed(y) /\ PendingAtStart(YearKeys(y)[i]))
                        => YearKeys(y)[i] \in Range(reqs)

(* a malformed listing file was logged, and afterwards a key of the other   *)
(* listing file is requested                                                *)
C21_Witness ==
    /\ prog = "D"
    /\ pc = "d_open"
    /\ warned # <<>>
    /\ \E y \in Range(warned) : ReadRaises(layout[y]) # "none"
    /\ cur.year \notin Range(warned)

-----------------------------------------------------------------------------
(* the years of the lines of a checkpoint file that are decimal numbers *)
C22_WellFormedYears(lines) ==
    {IntOf(lines[j]) : j \in {i \in DOMAIN lines :
                                  Len(lines[i]) > 0 /\ ~IntRaises(lines[i])}}

(* C22 (as claimed): whatever the checkpoint file of 1_facility_download.py *)
(* holds, loading it does not end the run, the loaded set holds exactly the *)
(* years of its well-formed lines, and no year with a well-formed line is   *)
(* requested.                                                               *)
C22_CheckpointLoad ==
    prog = "F" =>
        /\ (pc = "f_load") => ENABLED F_LoadCheckpoint
        /\ (pc \notin {"idle", "f_argv", "f_load"}) =>
              completed = C22_WellFormedYears(disk0.ckpt[FStore])
        /\ \A i \in DOMAIN reqs : reqs[i].year \notin C22_WellFormedYears(disk0.ckpt[FStore])

-----------------------------------------------------------------------------
(* C23 (as claimed): every invocation requests its keys in the one sequence *)
(* of the enumeration: the years ascend along the requests, and within a    *)
(* year of 2_dmr_download.py the requests follow the rows of the listing    *)
(* file.                                                                    *)
C23_DeterministicEnumeration ==
    /\ \A i, j \in DOMAIN reqs : i < j => reqs[i].year <= reqs[j].year
    /\ prog = "D" => \A y \in ListYears : IsSubseq(RequestsOf(y), YearKeys(y))

-----------------------------------------------------------------------------
(* C24 (as claimed): when clean_bad_csvs.py has ended or was interrupted, a *)
(* key whose artifact it moved away has no entry in the checkpoint file of  *)
(* 2_dmr_download.py, and a key whose entry has gone from that file has had *)
(* its artifact moved away.                                                 *)
C24_MaintenanceConsistency ==
    (maint # <<>> /\ maint.pc \in {"done", "killed"}) =>
        \A k \in DKeys :
            /\ k \in maint.trash => ~InCheckpoint(ckpt, k)
            /\ (InCheckpoint(disk0.ckpt, k) /\ ~InCheckpoint(ckpt, k)) => k \in maint.trash

-----------------------------------------------------------------------------
(* the function that handles a key has returned to the loop *)
C25_KeyReturned == pc \in {"f_append", "f_loop", "d_loop", "d_files"} \/ Finished

(* C25 (as claimed): every request is immediately preceded by the random    *)
(* pre-request delay, and when the function that handles the key has        *)
(* returned after a request, it has slept after it: the random post-request *)
(* delay or the cooldown.                                                   *)
C25_Throttle ==
    /\ \A i \in DOMAIN ev : ev[i] = "get" => (i > 1 /\ ev[i - 1] = "pre")
    /\ (C25_KeyReturned /\ "get" \in Range(ev)) =>
          ("post" \in Range(ev) \/ "cooldown" \in Range(ev))

-----------------------------------------------------------------------------
(* C26: whatever the responses are, a started process of either downloader  *)
(* ends: by the end of its keys, by SIGUSR1, or, before any key, by the     *)
(* usage branch or the missing directory (or it is killed); it never stays  *)
(* in its loop for ever.                                                    *)
C26_Termination == (pc # "idle") ~> Stopped

(* a run that reached the end of its keys after a request that failed and a *)
(* request that was answered with an error page                             *)
C26_Witness ==
    /\ Finished
    /\ Len(reqs) >= 2
    /\ "cooldown" \in Range(outs)
    /\ "quarantine" \in Range(outs)

-----------------------------------------------------------------------------
(* C27 (as claimed): in the earlier variants, once SIGUSR1 has been         *)
(* delivered to a running main, the process has ended with the event logged *)
(* and exit status 0 (and so handles no further key).                       *)
C27_OldPreemption ==
    (prog \in OldPrograms /\ "sigusr1" \in Range(ev)) =>
        /\ pc = "idle"
        /\ stop = "sigusr1"
        /\ exitCode = 0
        /\ logged

-----------------------------------------------------------------------------
(* a response that is a transport failure is in hand *)
C28_FailureInHand(r) == prog = "F" /\ r # NoResp /\ Outcome(r) = "TransportFailure"

(* the artifact of the key is as the invocation found it *)
C28_ArtifactKept ==
    (C28_FailureInHand(resp) /\ pc # "idle") =>
        files[FPath(cur.year)] = disk0.files[FPath(cur.year)]

(* the request and the steps that follow it write no file *)
C28_Steps ==
    (C28_FailureInHand(resp) \/ C28_FailureInHand(resp')) => (files' = files /\ ckpt' = ckpt)

(* C28 (as claimed): in 1_facility_download.py a request that ends in an    *)
(* exception or a non-2xx status leaves the artifact of its key as the      *)
(* invocation found it, and no step from the request to the return of the   *)
(* function changes an artifact or a checkpoint file.                       *)
C28_TransportFailureFrame ==
    /\ []C28_ArtifactKept
    /\ [][C28_Steps]_vars

-----------------------------------------------------------------------------
(* C29: in one run of 2_dmr_download.py no key is requested again after a   *)
(* request for it whose response was stored as data (which every Success    *)
(* is), although the permit IDs of a listing may repeat and the set of      *)
(* completed IDs in memory is not updated during the run.                   *)
C29_SuccessOnce ==
    prog = "D" =>
        \A i, j \in DOMAIN reqs :
            (i < j /\ reqs[i] = reqs[j]) => outs[i] # "store"

(* the second row of a listing that names the same permit ID twice has been *)
(* passed over: the first was requested and stored, and the ID is not in    *)
(* the set of completed IDs                                                 *)
C29_Witness ==
    /\ prog = "D"
    /\ pc = "d_loop"
    /\ Len(ids) = 2
    /\ ids[1] = ids[2]
    /\ idx = 3
    /\ reqs = <<Key(year, ids[1])>>
    /\ outs = <<"store">>
    /\ ids[1] \notin completed

-----------------------------------------------------------------------------
(* the key has a success artifact and a quarantine artifact on disk *)
C30_HasBoth(k) ==
    /\ files[DPath(k.year, k.id)].exists
    /\ files[EPath(k.year, k.id)].exists

(* C30 (as claimed): no key of 2_dmr_download.py has both a success         *)
(* artifact and a quarantine artifact on disk.                              *)
C30_MutualExclusionAsClaimed == prog = "D" => \A k \in DKeys : ~C30_HasBoth(k)

(* C30 (amended): once the success artifact of a key exists, no step        *)
(* creates or changes the quarantine artifact of that key; a key has both   *)
(* only when it was quarantined before it was stored.                       *)
C30_QuarantineBeforeSuccess ==
    [][(prog = "D" /\ prog' = "D") =>
          \A k \in DKeys :
              files[DPath(k.year, k.id)].exists =>
                  files'[EPath(k.year, k.id)] = files[EPath(k.year, k.id)]]_vars

(* a run has stored, completely, the data of a key that an earlier run had  *)
(* quarantined, and both artifacts are on disk                              *)
C30_Witness ==
    /\ prog = "D"
    /\ pc = "d_loop"
    /\ reqs # <<>>
    /\ outs[Len(outs)] = "store"
    /\ C30_HasBoth(reqs[Len(reqs)])
    /\ disk0.files[EPath(reqs[Len(reqs)].year, reqs[Len(reqs)].id)].exists
    /\ ~disk0.files[DPath(reqs[Len(reqs)].year, reqs[Len(reqs)].id)].exists

=============================================================================
